---- MODULE Spec2Model ----
(***************************************************************************)
(* Supernet: a conflict-free CIDR store over two bitwise binary tries.     *)
(*                                                                         *)
(* The store is modelled as the Go heap it lives in: `nodes` holds the     *)
(* BinaryTrie[Metadata] structs, `metas` the Metadata structs, both        *)
(* addressed by an allocation index (a pointer), with NULL for nil.  One   *)
(* action models one complete call of Supernet.InsertCidr; the reads       *)
(* (LookupIP, AllCIDRS) and the pure helpers (the comparator, the BitPath  *)
(* codec) are actions of their own specifications further down.            *)
(***************************************************************************)
EXTENDS Integers, Sequences, FiniteSets, TLC

VARIABLES
    nodes,      \* heap of trie.BinaryTrie[Metadata] structs, indexed by pointer
    metas,      \* heap of Metadata structs, indexed by pointer
    super,      \* the Supernet struct: the two trie roots
    result,     \* the *InsertionResult returned by the last InsertCidr
    panicked,   \* "" while the program runs, else the panic that ended it
    call,       \* the last InsertCidr call: its arguments, its plan and
                \* the node heap each step of the plan began with
    history,    \* the InsertCidr calls made so far, oldest first
    ret,        \* the last call other than InsertCidr: its arguments and
                \* what it returned
    logged      \* what the receiver set with WithCustomLogger was invoked
                \* with, oldest first: the report and the heap it found

vars == <<nodes, metas, super, result, panicked, call, history, ret, logged>>

----------------------------------------------------------------------------
(* Bounds of the model.                                                    *)

\* longest IPv4 prefix length handed to InsertCidr
MaxMaskV4 == 3
\* longest IPv6 prefix length handed to InsertCidr
MaxMaskV6 == 2
\* largest value of a user priority component
MaxPriority == 1
\* number of InsertCidr calls in one run
MaxInserts == 3
\* number of InsertCidr calls in one run that also reads the store
MaxApiInserts == 2
\* calls of InsertCidr that build the trie one DetachBranch call is made on
MaxDetachInserts == 2
\* calls of InsertCidr in a run where the caller may hand over a Metadata
\* object again
MaxReuseInserts == 3
\* calls of InsertCidr that build the store two CIDRs are inserted into in
\* both orders
MaxPairInserts == 1
\* node structs on the heap up to which the trie operations are called
MaxTrieNodes == 3
\* largest depth field of a receiver of an attaching trie operation
MaxTrieDepth == 1
\* calls of InsertCidr in a run of trie operations
MaxTrieInserts == 1
\* calls of InsertCidr in a run with reads following one another
MaxReadInserts == 2
\* records of one run of cmd resolve
MaxRunInserts == 2
\* largest value of a priority column handed to the file parser
MaxPriorityValue == 255
\* longest priority vector handed to the comparator on its own
MaxVectorLen == 2
\* largest component of a priority vector handed to the comparator on its own
MaxComponent == 2
\* longest bit vector handed to the BitPath codec, the full-width ones aside
MaxCodecBits == 9

----------------------------------------------------------------------------
(* Go values.                                                              *)

NULL == 0

NoPanic == ""

\* in place of a panic value: the call is in a loop that never ends and
\* hands nothing back
NeverReturns == "never returns"

\* 2^n
RECURSIVE Pow2(_)
Pow2(n) == IF n = 0 THEN 1 ELSE 2 * Pow2(n - 1)

\* a sequence of n zero bytes
ZeroBytes(n) == [i \in 1..n |-> 0]

\* net.IPNet{IP, Mask}: IP is the byte slice, Mask is kept as its number of
\* leading ones (net.IPMask.Size)
IPNet(ip, ones) == [IP |-> ip, Mask |-> ones]

\* net.IP.To4() == nil
To4IsNil(ip) ==
    IF Len(ip) = 4 THEN FALSE
    ELSE ~(/\ Len(ip) = 16
           /\ \A i \in 1..10 : ip[i] = 0
           /\ ip[11] = 255
           /\ ip[12] = 255)

----------------------------------------------------------------------------
(* pkg/trie: BinaryTrie.                                                   *)

\* trie.NewTrieWithMetadata: a node struct not yet attached anywhere
NewTrieWithMetadata(md) ==
    [parent |-> NULL, children |-> <<NULL, NULL>>, metadata |-> md,
     pos |-> FALSE, depth |-> 0]

\* newPathNode: &trie.BinaryTrie[Metadata]{}
newPathNode == NewTrieWithMetadata(NULL)

IsRoot(h, t) == h[t].parent = NULL

Pos(h, t) == IF h[t].pos THEN 1 ELSE 0

Depth(h, t) == h[t].depth

Parent(h, t) == h[t].parent

Metadata(h, t) == h[t].metadata

UpdateMetadata(h, t, md) == [h EXCEPT ![t].metadata = md]

\* children[at]; Go indexes from 0
Child(h, t, at) == h[t].children[at + 1]

\* t.ReplaceChild(child, at)
ReplaceChild(h, t, child, at) ==
    [h EXCEPT ![child].parent = t,
              ![child].pos = (at = 1),
              ![child].depth = h[t].depth + 1,
              ![t].children[at + 1] = child]

\* AttachChild with a freshly allocated child struct `fresh`: the struct is
\* stored at the next heap index only when the slot is empty (an unused
\* allocation is garbage the program cannot see).
AttachChild(h, t, fresh, at) ==
    IF h[t].children[at + 1] # NULL
    THEN [h |-> h, node |-> h[t].children[at + 1], attached |-> FALSE]
    ELSE LET id == Len(h) + 1
         IN  [h |-> ReplaceChild(Append(h, fresh), t, id, at),
              node |-> id, attached |-> TRUE]

Xor1(b) == 1 - b

AttachSibling(h, t, fresh) == AttachChild(h, h[t].parent, fresh, Xor1(Pos(h, t)))

Sibling(h, t) == Child(h, h[t].parent, Xor1(Pos(h, t)))

IsBranch(h, t) == Sibling(h, t) # NULL

IsLeaf(h, t) == h[t].children[1] = NULL /\ h[t].children[2] = NULL

\* Detach of a non-root node
Detach(h, t) == [h EXCEPT ![h[t].parent].children[Pos(h, t) + 1] = NULL]

\* the nodes reached from the nodes of S through child slots, S included
RECURSIVE Below(_, _)
Below(h, S) ==
    LET next == S \cup (({ h[n].children[1] : n \in S }
                         \cup { h[n].children[2] : n \in S }) \ {NULL})
    IN  IF next = S THEN S ELSE Below(h, next)

\* the recursion of ForEachStepDown with a nil condition ends when started
\* at t: no node it steps down to is reached again from its own children
LeafsEnds(h, t) ==
    \A n \in Below(h, {h[t].children[1], h[t].children[2]} \ {NULL}) :
        n \notin Below(h, {h[n].children[1], h[n].children[2]} \ {NULL})

\* the loop of ForEachStepUp ends when started at current: it leaves a node
\* that has no parent or fails the condition before it has made more steps
\* than there are nodes (no call made in the loop writes the parent or the
\* depth of a node the loop has yet to visit). while names the condition
\* the loop is given: nil, the one of DetachBranch or the one of splitAround
RECURSIVE ForEachStepUpEnds(_, _, _, _, _)
ForEachStepUpEnds(h, current, while, limit, steps) ==
    LET holds == CASE while = "nil" -> TRUE
                   [] while = "DetachBranch" ->
                          ~IsBranch(h, current) /\ h[current].depth > limit
                   [] while = "splitAround" -> Depth(h, current) > limit
    IN  IF ~(h[current].parent # NULL /\ holds) THEN TRUE
        ELSE IF steps = 0 THEN FALSE
        ELSE ForEachStepUpEnds(h, h[current].parent, while, limit, steps - 1)

\* the walk of DetachBranch with a loop condition that never looks at limit
RECURSIVE DetachBranchWalkNoLimit(_, _, _, _)
DetachBranchWalkNoLimit(h, current, nearestBranchedNode, limit) ==
    IF h[current].parent # NULL /\ ~IsBranch(h, current)
    THEN DetachBranchWalkNoLimit(h, h[current].parent,
             IF ~IsRoot(h, h[current].parent) THEN h[current].parent
             ELSE nearestBranchedNode,
             limit)
    ELSE nearestBranchedNode

\* the ForEachStepUp loop of DetachBranch: the node it ends up detaching
RECURSIVE DetachBranchWalk(_, _, _, _)
DetachBranchWalk(h, current, nearestBranchedNode, limit) ==
    IF h[current].parent # NULL
       /\ (~IsBranch(h, current) /\ h[current].depth > limit)
    THEN DetachBranchWalk(h, h[current].parent,
             IF ~IsRoot(h, h[current].parent) THEN h[current].parent
             ELSE nearestBranchedNode,
             limit)
    ELSE nearestBranchedNode

\* DetachBranch as a bare Detach of t: the spine above t is left standing
DetachBranchNoWalk(h, t, limit) ==
    IF IsRoot(h, t)
    THEN [h |-> h, node |-> NULL,
          panic |-> "DetachBranch: You can not detach Root"]
    ELSE [h |-> Detach(h, t), node |-> h[t].parent, panic |-> NoPanic]

\* DetachBranch(limit) on t: the heap it leaves and the node it returns
\* (Detach leaves the detached node's parent pointer in place); where the
\* parent pointers lead round a ring of nodes that all pass the condition
\* the loop never ends
DetachBranch(h, t, limit) ==
    IF IsRoot(h, t)
    THEN [h |-> h, node |-> NULL,
          panic |-> "DetachBranch: You can not detach Root"]
    ELSE IF ~ForEachStepUpEnds(h, t, "DetachBranch", limit, Len(h))
    THEN [h |-> h, node |-> NULL, panic |-> NeverReturns]
    ELSE LET detached(nearestBranchedNode) ==
                 [h     |-> Detach(h, nearestBranchedNode),
                  node  |-> h[nearestBranchedNode].parent,
                  panic |-> NoPanic]
         IN  detached(DetachBranchWalk(h, t, t, limit))

\* Path: the bits read off the parent chain, root first
RECURSIVE Path(_, _)
Path(h, t) ==
    IF h[t].parent = NULL THEN <<>>
    ELSE Append(Path(h, h[t].parent), Pos(h, t))

\* Leafs stepping down into the bit-1 child before the bit-0 child
RECURSIVE LeafsOneFirst(_, _)
LeafsOneFirst(h, t) ==
    LET below(c) == IF c = NULL THEN <<>>
                    ELSE (IF IsLeaf(h, c) THEN <<c>> ELSE <<>>)
                         \o LeafsOneFirst(h, c)
    IN  below(h[t].children[2]) \o below(h[t].children[1])

\* Leafs: the leaves strictly below t, in ForEachStepDown order
RECURSIVE Leafs(_, _)
Leafs(h, t) ==
    LET below(c) == IF c = NULL THEN <<>>
                    ELSE (IF IsLeaf(h, c) THEN <<c>> ELSE <<>>) \o Leafs(h, c)
    IN  below(h[t].children[1]) \o below(h[t].children[2])

----------------------------------------------------------------------------
(* pkg/supernet: the BitPath codec and the comparator.                     *)

\* bit k (0 = the high-order bit of the first byte) of a byte slice:
\* (byteVal >> (7 - bitPosition)) & 1
BitOf(ip, k) == (ip[(k \div 8) + 1] \div Pow2(7 - (k % 8))) % 2

\* CidrToBits taking a prefix length of 0 for a prefix length of 1
CidrToBitsZeroAsOne(ipnet) ==
    LET maskSize == IF ipnet.Mask = 0 THEN 1 ELSE ipnet.Mask
    IN  IF maskSize > 8 * Len(ipnet.IP)
        THEN [path |-> <<>>, depth |-> 0,
              panic |-> "cidrToBits: bit calculation error"]
        ELSE [path |-> [k \in 1..maskSize |-> BitOf(ipnet.IP, k - 1)],
              depth |-> maskSize - 1,
              panic |-> NoPanic]

\* CidrToBits: the first maskSize bits of the address and maskSize - 1
CidrToBits(ipnet) ==
    LET maskSize == ipnet.Mask
    IN  IF maskSize = 0
        THEN [path |-> <<>>, depth |-> 0,
              panic |-> "cidrToBits: network Mask /0 not valid"]
        ELSE IF maskSize > 8 * Len(ipnet.IP)
        THEN [path |-> <<>>, depth |-> 0,
              panic |-> "cidrToBits: bit calculation error"]
        ELSE [path |-> [k \in 1..maskSize |-> BitOf(ipnet.IP, k - 1)],
              depth |-> maskSize - 1,
              panic |-> NoPanic]

\* net.IPMask.Size: the number of leading ones of a canonical mask, 0 for
\* any other mask
LeadingOnes(mask) ==
    LET zeros == { k \in 0..(8 * Len(mask) - 1) : BitOf(mask, k) = 0 }
    IN  IF zeros = {} THEN 8 * Len(mask)
        ELSE CHOOSE k \in zeros : \A j \in zeros : k <= j

MaskSize(mask) ==
    LET sized(n) == IF \A k \in n..(8 * Len(mask) - 1) : BitOf(mask, k) = 0
                    THEN n ELSE 0
    IN  sized(LeadingOnes(mask))

\* the inner loop of BitsToCidr with the first eight bits shifted in
\* without the zero padding of a short vector
RECURSIVE BitsToCidrByteUnpadded(_, _, _, _, _)
BitsToCidrByteUnpadded(bits, currentBit, i, ipByte, maskByte) ==
    IF i = 8
    THEN [ipByte |-> ipByte, maskByte |-> maskByte, currentBit |-> currentBit]
    ELSE IF currentBit <= Len(bits) - 1
    THEN BitsToCidrByteUnpadded(bits, currentBit + 1, i + 1,
                        (ipByte * 2 + bits[currentBit + 1]) % 256,
                        (maskByte * 2 + 1) % 256)
    ELSE BitsToCidrByteUnpadded(bits, currentBit, i + 1, ipByte,
                        (maskByte * 2) % 256)

\* the inner loop of BitsToCidr: bit i of the byte being built
RECURSIVE BitsToCidrByte(_, _, _, _, _)
BitsToCidrByte(bits, currentBit, i, ipByte, maskByte) ==
    IF i = 8
    THEN [ipByte |-> ipByte, maskByte |-> maskByte, currentBit |-> currentBit]
    ELSE IF currentBit <= Len(bits) - 1
    THEN BitsToCidrByte(bits, currentBit + 1, i + 1,
                        (ipByte * 2 + bits[currentBit + 1]) % 256,
                        (maskByte * 2 + 1) % 256)
    ELSE BitsToCidrByte(bits, currentBit, i + 1, (ipByte * 2) % 256,
                        (maskByte * 2) % 256)

\* the outer loop of BitsToCidr: the bytes 0..maxBytes-1; currentBit has
\* advanced by eight per byte until the bits ran out
BitsToCidrBytes(bits, maxBytes) ==
    LET currentBit(iByte) == IF 8 * iByte <= Len(bits) THEN 8 * iByte
                             ELSE Len(bits)
        byte(iByte) == BitsToCidrByte(bits, currentBit(iByte), 0, 0, 0)
    IN  [ipBytes |-> [i \in 1..maxBytes |-> byte(i - 1).ipByte],
         maskBytes |-> [i \in 1..maxBytes |-> byte(i - 1).maskByte]]

\* BitsToCidr(bits, ipV6): the net.IPNet of a bit path
BitsToCidr(bits, ipV6) ==
    LET made(b) == IPNet(b.ipBytes, MaskSize(b.maskBytes))
    IN  made(BitsToCidrBytes(bits, IF ipV6 THEN 16 ELSE 4))

\* the loop of DefaultComparator from index i on: "true", "false", or the
\* run-time panic of indexing b.Priority out of range
RECURSIVE ComparatorLoop(_, _, _)
ComparatorLoop(a, b, i) ==
    IF i > Len(a) THEN "true"
    ELSE IF i > Len(b) THEN "index out of range"
    ELSE IF a[i] > b[i] THEN "true"
    ELSE IF a[i] < b[i] THEN "false"
    ELSE ComparatorLoop(a, b, i + 1)

\* a comparator that keeps the old entry on fully equal vectors
RECURSIVE StrictComparatorLoop(_, _, _)
StrictComparatorLoop(a, b, i) ==
    IF i > Len(a) THEN "false"
    ELSE IF i > Len(b) THEN "index out of range"
    ELSE IF a[i] > b[i] THEN "true"
    ELSE IF a[i] < b[i] THEN "false"
    ELSE StrictComparatorLoop(a, b, i + 1)

DefaultComparatorStrict(ms, a, b) ==
    IF a = NULL THEN "nil pointer dereference"
    ELSE IF ms[a].Priority = <<>> THEN "false"
    ELSE IF b = NULL THEN "nil pointer dereference"
    ELSE StrictComparatorLoop(ms[a].Priority, ms[b].Priority, 1)

\* a comparator that leaves the last component (the prefix length) out
DefaultComparatorNoLength(ms, a, b) ==
    IF a = NULL THEN "nil pointer dereference"
    ELSE IF Len(ms[a].Priority) <= 1 THEN "true"
    ELSE IF b = NULL THEN "nil pointer dereference"
    ELSE ComparatorLoop(SubSeq(ms[a].Priority, 1, Len(ms[a].Priority) - 1),
                        SubSeq(ms[b].Priority, 1, Len(ms[b].Priority) - 1), 1)

\* a comparator that lets the first component alone decide
DefaultComparatorFirstOnly(ms, a, b) ==
    IF a = NULL THEN "nil pointer dereference"
    ELSE IF ms[a].Priority = <<>> THEN "true"
    ELSE IF b = NULL THEN "nil pointer dereference"
    ELSE ComparatorLoop(SubSeq(ms[a].Priority, 1,
                               IF Len(ms[a].Priority) = 0 THEN 0 ELSE 1),
                        ms[b].Priority, 1)

\* DefaultComparator(a, b) on two *Metadata, either of which may be nil:
\* a.Priority is read when the range loop starts, b.Priority in its first
\* iteration, so a nil b goes unnoticed when a's vector is empty
DefaultComparator(ms, a, b) ==
    IF a = NULL THEN "nil pointer dereference"
    ELSE IF ms[a].Priority = <<>> THEN "true"
    ELSE IF b = NULL THEN "nil pointer dereference"
    ELSE ComparatorLoop(ms[a].Priority, ms[b].Priority, 1)

----------------------------------------------------------------------------
(* pkg/supernet: conflict classification.                                  *)

\* a classifier that does not see an entry above the targeted depth
isThereAConflictNoSub(h, currentNode, targetedDepth) ==
    IF Metadata(h, currentNode) = NULL
    THEN IF targetedDepth = Depth(h, currentNode) /\ ~IsLeaf(h, currentNode)
         THEN "SuperCIDR"
         ELSE "NoConflict"
    ELSE IF Depth(h, currentNode) = targetedDepth THEN "EqualCIDR"
    ELSE IF Depth(h, currentNode) < targetedDepth THEN "NoConflict"
    ELSE "panic"

\* a classifier that takes every node without an entry at the targeted
\* depth for a supernet, leaf or not
isThereAConflictSuperOnLeaf(h, currentNode, targetedDepth) ==
    IF Metadata(h, currentNode) = NULL
    THEN IF targetedDepth = Depth(h, currentNode)
         THEN "SuperCIDR"
         ELSE "NoConflict"
    ELSE IF Depth(h, currentNode) = targetedDepth THEN "EqualCIDR"
    ELSE IF Depth(h, currentNode) < targetedDepth THEN "SubCIDR"
    ELSE "panic"

\* isThereAConflict(currentNode, targetedDepth)
isThereAConflict(h, currentNode, targetedDepth) ==
    IF Metadata(h, currentNode) = NULL
    THEN IF targetedDepth = Depth(h, currentNode) /\ ~IsLeaf(h, currentNode)
         THEN "SuperCIDR"
         ELSE "NoConflict"
    ELSE IF Depth(h, currentNode) = targetedDepth THEN "EqualCIDR"
    ELSE IF Depth(h, currentNode) < targetedDepth THEN "SubCIDR"
    ELSE "panic"

\* the loop of buildPath, at index i of path with currentNode reached
RECURSIVE buildPathLoop(_, _, _, _)
buildPathLoop(h, currentNode, path, i) ==
    IF i > Len(path)
    THEN [h |-> h, lastNode |-> currentNode, conflict |-> "NoConflict",
          remainingPath |-> <<>>, panic |-> NoPanic]
    ELSE LET classified(a, ct) ==
                 IF ct = "panic"
                 THEN [h |-> a.h, lastNode |-> a.node, conflict |-> ct,
                       remainingPath |-> <<>>,
                       panic |-> "isThereAConflict: unhandled edge case encountered"]
                 ELSE IF ct # "NoConflict"
                 THEN [h |-> a.h, lastNode |-> a.node, conflict |-> ct,
                       remainingPath |-> SubSeq(path, i + 1, Len(path)),
                       panic |-> NoPanic]
                 ELSE buildPathLoop(a.h, a.node, path, i + 1)
             attached(a) == classified(a, isThereAConflict(a.h, a.node, Len(path)))
         IN  attached(AttachChild(h, currentNode, newPathNode, path[i]))

buildPath(h, root, path) == buildPathLoop(h, root, path, 1)

----------------------------------------------------------------------------
(* pkg/supernet: the resolution planner.                                   *)

\* one PlanStep
Step(action, on) == [Action |-> action, TargetNode |-> on]

NoConflictResolve(h, ms, at, newCidr) ==
    [Conflicts |-> <<>>, Steps |-> <<Step("Insert New CIDR", at)>>,
     panic |-> NoPanic]

\* an Equal plan that removes the old entry and forgets to insert the new
EqualCIDRResolveRemoveOnly(h, ms, conflictedCidr, newCidr) ==
    LET c == DefaultComparator(ms, Metadata(h, newCidr), Metadata(h, conflictedCidr))
    IN  [Conflicts |-> <<h[conflictedCidr]>>,
         Steps |-> IF c = "true"
                   THEN <<Step("Remove Existing CIDR", conflictedCidr)>>
                   ELSE IF c = "false"
                   THEN <<Step("Ignore Insertion", newCidr)>>
                   ELSE <<>>,
         panic |-> IF c \in {"true", "false"} THEN NoPanic ELSE c]

\* an Equal plan that always keeps the old entry
EqualCIDRResolveKeepsOld(h, ms, conflictedCidr, newCidr) ==
    LET c == DefaultComparator(ms, Metadata(h, newCidr), Metadata(h, conflictedCidr))
    IN  [Conflicts |-> <<h[conflictedCidr]>>,
         Steps |-> IF c \in {"true", "false"}
                   THEN <<Step("Ignore Insertion", newCidr)>>
                   ELSE <<>>,
         panic |-> IF c \in {"true", "false"} THEN NoPanic ELSE c]

EqualCIDRResolve(h, ms, conflictedCidr, newCidr) ==
    LET c == DefaultComparator(ms, Metadata(h, newCidr), Metadata(h, conflictedCidr))
    IN  [Conflicts |-> <<h[conflictedCidr]>>,
         Steps |-> IF c = "true"
                   THEN <<Step("Remove Existing CIDR", conflictedCidr),
                          Step("Insert New CIDR", conflictedCidr)>>
                   ELSE IF c = "false"
                   THEN <<Step("Ignore Insertion", newCidr)>>
                   ELSE <<>>,
         panic |-> IF c \in {"true", "false"} THEN NoPanic ELSE c]

\* the partition loop with the two lists taken for one another
RECURSIVE SuperPartitionSwapped(_, _, _, _, _, _, _)
SuperPartitionSwapped(h, ms, newSuperCidr, leafs, i, low, high) ==
    IF i > Len(leafs)
    THEN [low |-> low, high |-> high, seen |-> Len(leafs), panic |-> NoPanic]
    ELSE LET c == DefaultComparator(ms, Metadata(h, newSuperCidr),
                                    Metadata(h, leafs[i]))
         IN  IF c = "false"
             THEN SuperPartitionSwapped(h, ms, newSuperCidr, leafs, i + 1,
                                        Append(low, leafs[i]), high)
             ELSE IF c = "true"
             THEN SuperPartitionSwapped(h, ms, newSuperCidr, leafs, i + 1,
                                        low, Append(high, leafs[i]))
             ELSE [low |-> low, high |-> high, seen |-> i, panic |-> c]

\* the partition loop of SuperCIDR.Resolve over the leaves from index i on
RECURSIVE SuperPartition(_, _, _, _, _, _, _)
SuperPartition(h, ms, newSuperCidr, leafs, i, low, high) ==
    IF i > Len(leafs)
    THEN [low |-> low, high |-> high, seen |-> Len(leafs), panic |-> NoPanic]
    ELSE LET c == DefaultComparator(ms, Metadata(h, newSuperCidr),
                                    Metadata(h, leafs[i]))
         IN  IF c = "true"
             THEN SuperPartition(h, ms, newSuperCidr, leafs, i + 1,
                                 Append(low, leafs[i]), high)
             ELSE IF c = "false"
             THEN SuperPartition(h, ms, newSuperCidr, leafs, i + 1,
                                 low, Append(high, leafs[i]))
             ELSE [low |-> low, high |-> high, seen |-> i, panic |-> c]

\* a Super plan that reports only the entries it removes as conflicts
SuperCIDRResolveReportsRemoved(h, ms, conflictPoint, newSuperCidr) ==
    LET conflictedSubCidrs == Leafs(h, conflictPoint)
        part == SuperPartition(h, ms, newSuperCidr, conflictedSubCidrs, 1,
                               <<>>, <<>>)
    IN  [Conflicts |-> [i \in 1..Len(part.low) |-> h[part.low[i]]],
         Steps |->
            [i \in 1..Len(part.low) |-> Step("Remove Existing CIDR", part.low[i])]
            \o [i \in 1..Len(part.high) |-> Step("Split Inserted CIDR", part.high[i])]
            \o (IF Len(part.high) = 0
                THEN <<Step("Insert New CIDR", conflictPoint)>>
                ELSE <<>>),
         panic |-> part.panic]

\* a Super plan that splits before it removes
SuperCIDRResolveSplitFirst(h, ms, conflictPoint, newSuperCidr) ==
    LET conflictedSubCidrs == Leafs(h, conflictPoint)
        part == SuperPartition(h, ms, newSuperCidr, conflictedSubCidrs, 1,
                               <<>>, <<>>)
    IN  [Conflicts |-> [i \in 1..part.seen |-> h[conflictedSubCidrs[i]]],
         Steps |->
            [i \in 1..Len(part.high) |-> Step("Split Inserted CIDR", part.high[i])]
            \o [i \in 1..Len(part.low) |-> Step("Remove Existing CIDR", part.low[i])]
            \o (IF Len(part.high) = 0
                THEN <<Step("Insert New CIDR", conflictPoint)>>
                ELSE <<>>),
         panic |-> part.panic]

\* a Super plan that inserts the new CIDR even when entries survive below it
SuperCIDRResolveAlwaysInsert(h, ms, conflictPoint, newSuperCidr) ==
    LET conflictedSubCidrs == Leafs(h, conflictPoint)
        part == SuperPartition(h, ms, newSuperCidr, conflictedSubCidrs, 1,
                               <<>>, <<>>)
    IN  [Conflicts |-> [i \in 1..part.seen |-> h[conflictedSubCidrs[i]]],
         Steps |->
            [i \in 1..Len(part.low) |-> Step("Remove Existing CIDR", part.low[i])]
            \o [i \in 1..Len(part.high) |-> Step("Split Inserted CIDR", part.high[i])]
            \o <<Step("Insert New CIDR", conflictPoint)>>,
         panic |-> part.panic]

\* SuperCIDR.Resolve(conflictPoint, newSuperCidr, comparator); where a
\* node below conflictPoint is reached again from its own children the
\* recursion of Leafs has no end and the runtime stops the program with
\* "fatal error: stack overflow"
SuperCIDRResolve(h, ms, conflictPoint, newSuperCidr) ==
    LET conflictedSubCidrs == Leafs(h, conflictPoint)
        part == SuperPartition(h, ms, newSuperCidr, conflictedSubCidrs, 1,
                               <<>>, <<>>)
        subCidrsWithLowPriority == part.low
        subCidrsWithHighPriority == part.high
    IN  IF ~LeafsEnds(h, conflictPoint)
        THEN [Conflicts |-> <<>>, Steps |-> <<>>, panic |-> "stack overflow"]
        ELSE
        [Conflicts |-> [i \in 1..part.seen |-> h[conflictedSubCidrs[i]]],
         Steps |->
            [i \in 1..Len(subCidrsWithLowPriority) |->
                Step("Remove Existing CIDR", subCidrsWithLowPriority[i])]
            \o [i \in 1..Len(subCidrsWithHighPriority) |->
                Step("Split Inserted CIDR", subCidrsWithHighPriority[i])]
            \o (IF Len(subCidrsWithHighPriority) = 0
                THEN <<Step("Insert New CIDR", conflictPoint)>>
                ELSE <<>>),
         panic |-> part.panic]

\* a Sub plan that removes the existing supernet before it splits it
SubCIDRResolveRemoveFirst(h, ms, existingSuperCidr, newSubCidr) ==
    LET c == DefaultComparator(ms, Metadata(h, newSubCidr),
                               Metadata(h, existingSuperCidr))
    IN  [Conflicts |-> <<h[existingSuperCidr]>>,
         Steps |-> IF c = "true"
                   THEN <<Step("Insert New CIDR", newSubCidr),
                          Step("Remove Existing CIDR", existingSuperCidr),
                          Step("Split Existing CIDR", existingSuperCidr)>>
                   ELSE IF c = "false"
                   THEN <<Step("Ignore Insertion", newSubCidr)>>
                   ELSE <<>>,
         panic |-> IF c \in {"true", "false"} THEN NoPanic ELSE c]

\* a Sub resolver that lets the new CIDR win whatever the comparator says
SubCIDRResolveNewWins(h, ms, existingSuperCidr, newSubCidr) ==
    [Conflicts |-> <<h[existingSuperCidr]>>,
     Steps |-> <<Step("Insert New CIDR", newSubCidr),
                 Step("Split Existing CIDR", existingSuperCidr),
                 Step("Remove Existing CIDR", existingSuperCidr)>>,
     panic |-> NoPanic]

\* SubCIDR.Resolve(existingSuperCidr, newSubCidr, comparator)
SubCIDRResolve(h, ms, existingSuperCidr, newSubCidr) ==
    LET c == DefaultComparator(ms, Metadata(h, newSubCidr),
                               Metadata(h, existingSuperCidr))
    IN  [Conflicts |-> <<h[existingSuperCidr]>>,
         Steps |-> IF c = "true"
                   THEN <<Step("Insert New CIDR", newSubCidr),
                          Step("Split Existing CIDR", existingSuperCidr),
                          Step("Remove Existing CIDR", existingSuperCidr)>>
                   ELSE IF c = "false"
                   THEN <<Step("Ignore Insertion", newSubCidr)>>
                   ELSE <<>>,
         panic |-> IF c \in {"true", "false"} THEN NoPanic ELSE c]

\* conflictType.Resolve(lastNode, newCidrNode, super.comparator)
Resolve(conflictType, h, ms, lastNode, newCidr) ==
    CASE conflictType = "NoConflict" -> NoConflictResolve(h, ms, lastNode, newCidr)
      [] conflictType = "EqualCIDR"  -> EqualCIDRResolve(h, ms, lastNode, newCidr)
      [] conflictType = "SuperCIDR"  -> SuperCIDRResolve(h, ms, lastNode, newCidr)
      [] conflictType = "SubCIDR"    -> SubCIDRResolve(h, ms, lastNode, newCidr)

----------------------------------------------------------------------------
(* pkg/supernet: the actions.                                              *)

\* &ActionResult{Action: action}
ActionResult(action) == [Action |-> action, AddedCidrs |-> <<>>, RemoveCidrs |-> <<>>]

\* appendAddedCidr / appendRemovedCidr store a copy of the node struct
appendAddedCidr(ar, h, cidr) == [ar EXCEPT !.AddedCidrs = Append(@, h[cidr])]

appendRemovedCidr(ar, h, cidr) == [ar EXCEPT !.RemoveCidrs = Append(@, h[cidr])]

\* what an Execute hands back: the heaps, the action result, the panic if any
Outcome(h, ms, ar, panic) == [h |-> h, ms |-> ms, result |-> ar, panic |-> panic]

\* the ForEachStepUp loop of splitAround at node current
RECURSIVE splitAroundWalk(_, _, _, _, _, _)
splitAroundWalk(h, ms, current, splittedCidrMetadata, limitDepth, splittedCidrs) ==
    IF h[current].parent # NULL /\ Depth(h, current) > limitDepth
    THEN LET md == Len(ms) + 1
             copy == [IsV6 |-> ms[splittedCidrMetadata].IsV6,
                      originCIDR |-> ms[splittedCidrMetadata].originCIDR,
                      Priority |-> ms[splittedCidrMetadata].Priority,
                      Attributes |-> ms[splittedCidrMetadata].Attributes]
             a == AttachSibling(h, current, NewTrieWithMetadata(md))
         IN  IF a.attached
             THEN splitAroundWalk(a.h, Append(ms, copy), h[current].parent,
                      splittedCidrMetadata, limitDepth,
                      Append(splittedCidrs, a.node))
             ELSE splitAroundWalk(h, ms, h[current].parent,
                      splittedCidrMetadata, limitDepth, splittedCidrs)
    ELSE [h |-> h, ms |-> ms, splittedCidrs |-> splittedCidrs, panic |-> NoPanic]

\* splitAround that stops one level below the limit
splitAroundShort(h, ms, sub, newCidrMetadata, limitDepth) ==
    IF newCidrMetadata = NULL
    THEN [h |-> h, ms |-> ms, splittedCidrs |-> <<>>,
          panic |-> "splitAround: Metadata is required to split a supernet"]
    ELSE splitAroundWalk(h, ms, sub, newCidrMetadata, limitDepth + 1, <<>>)

\* splitAround that begins at the parent of sub, leaving sub's own sibling
\* slot out
splitAroundFromParent(h, ms, sub, newCidrMetadata, limitDepth) ==
    IF newCidrMetadata = NULL
    THEN [h |-> h, ms |-> ms, splittedCidrs |-> <<>>,
          panic |-> "splitAround: Metadata is required to split a supernet"]
    ELSE splitAroundWalk(h, ms, h[sub].parent, newCidrMetadata, limitDepth, <<>>)

\* splitAround(sub, newCidrMetadata, limitDepth); where the parent
\* pointers lead round a ring of nodes deeper than limitDepth the loop
\* never ends
splitAround(h, ms, sub, newCidrMetadata, limitDepth) ==
    IF newCidrMetadata = NULL
    THEN [h |-> h, ms |-> ms, splittedCidrs |-> <<>>,
          panic |-> "splitAround: Metadata is required to split a supernet"]
    ELSE IF ~ForEachStepUpEnds(h, sub, "splitAround", limitDepth, Len(h))
    THEN [h |-> h, ms |-> ms, splittedCidrs |-> <<>>, panic |-> NeverReturns]
    ELSE splitAroundWalk(h, ms, sub, newCidrMetadata, limitDepth, <<>>)

\* appendAddedCidr for each node of a list, in order
RECURSIVE appendAllAdded(_, _, _, _)
appendAllAdded(ar, h, cidrs, i) ==
    IF i > Len(cidrs) THEN ar
    ELSE appendAllAdded(appendAddedCidr(ar, h, cidrs[i]), h, cidrs, i + 1)

IgnoreInsertionExecute(h, ms) ==
    Outcome(h, ms, ActionResult("Ignore Insertion"), NoPanic)

InsertNewCIDRExecute(h, ms, newCidr, conflictedPoint, remainingPath) ==
    LET ar == ActionResult("Insert New CIDR")
        replaced(h2) == Outcome(h2, ms, appendAddedCidr(ar, h2, newCidr), NoPanic)
        built(bp) ==
            IF bp.panic # NoPanic
            THEN Outcome(bp.h, ms, ar, bp.panic)
            ELSE IF bp.conflict # "NoConflict"
            THEN Outcome(bp.h, ms, ar,
                   "InsertNewCIDR: Can not insert CIDR while there is a conflict unresolved")
            ELSE IF Metadata(bp.h, bp.lastNode) # NULL
            THEN Outcome(bp.h, ms, ar,
                   "InsertNewCIDR: Last node must be path node without metadata")
            ELSE IF Parent(bp.h, bp.lastNode) = NULL
            THEN Outcome(bp.h, ms, ar, "nil pointer dereference")
            ELSE replaced(ReplaceChild(bp.h, Parent(bp.h, bp.lastNode),
                                       newCidr, Pos(bp.h, bp.lastNode)))
    IN  IF conflictedPoint = NULL
        THEN Outcome(h, ms, ar, "InsertNewCIDR: conflictedPoint Node must not be nil")
        ELSE IF ~IsLeaf(h, conflictedPoint)
        THEN Outcome(h, ms, ar, "InsertNewCIDR: conflictedPoint node must be a leaf")
        ELSE built(buildPath(h, conflictedPoint, remainingPath))

\* Remove Existing CIDR that leaves the entry of a shallower target in place
RemoveExistingCIDRExecuteKeepsEntry(h, ms, newCidr, targetNode) ==
    LET ar == appendRemovedCidr(ActionResult("Remove Existing CIDR"), h, targetNode)
        newCidrDepth == ms[Metadata(h, newCidr)].originCIDR.Mask
    IN  IF newCidrDepth >= Depth(h, targetNode)
        THEN Outcome(h, ms, ar, NoPanic)
        ELSE LET d == DetachBranch(h, targetNode, newCidrDepth + 1)
             IN  Outcome(d.h, ms, ar, d.panic)

\* Remove Existing CIDR taking only the target node off its parent
RemoveExistingCIDRExecuteDetachOnly(h, ms, newCidr, targetNode) ==
    LET ar == appendRemovedCidr(ActionResult("Remove Existing CIDR"), h, targetNode)
        newCidrDepth == ms[Metadata(h, newCidr)].originCIDR.Mask
    IN  IF newCidrDepth >= Depth(h, targetNode)
        THEN Outcome(UpdateMetadata(h, targetNode, NULL), ms, ar, NoPanic)
        ELSE Outcome(Detach(h, targetNode), ms, ar, NoPanic)

\* Remove Existing CIDR detaching with the inserted depth itself as limit
RemoveExistingCIDRExecuteLimitAtDepth(h, ms, newCidr, targetNode) ==
    LET ar == appendRemovedCidr(ActionResult("Remove Existing CIDR"), h, targetNode)
        newCidrDepth == ms[Metadata(h, newCidr)].originCIDR.Mask
    IN  IF newCidrDepth >= Depth(h, targetNode)
        THEN Outcome(UpdateMetadata(h, targetNode, NULL), ms, ar, NoPanic)
        ELSE LET d == DetachBranch(h, targetNode, newCidrDepth)
             IN  Outcome(d.h, ms, ar, d.panic)

\* RemoveExistingCIDR.Execute(newCidr, _, targetNode, _)
RemoveExistingCIDRExecute(h, ms, newCidr, targetNode) ==
    LET ar == appendRemovedCidr(ActionResult("Remove Existing CIDR"), h, targetNode)
        newCidrDepth == ms[Metadata(h, newCidr)].originCIDR.Mask
    IN  IF newCidrDepth >= Depth(h, targetNode)
        THEN Outcome(UpdateMetadata(h, targetNode, NULL), ms, ar, NoPanic)
        ELSE LET d == DetachBranch(h, targetNode, newCidrDepth + 1)
             IN  Outcome(d.h, ms, ar, d.panic)

\* Split Inserted CIDR that copies the surviving entry into the fragments
SplitInsertedCIDRExecuteTargetMeta(h, ms, newCidr, conflictedPoint, targetNode) ==
    LET sp == splitAround(h, ms, targetNode, Metadata(h, targetNode),
                          Depth(h, conflictedPoint))
    IN  Outcome(sp.h, sp.ms,
                appendAllAdded(ActionResult("Split Inserted CIDR"), sp.h,
                               sp.splittedCidrs, 1),
                sp.panic)

\* SplitInsertedCIDR.Execute(newCidr, conflictedPoint, targetNode, _)
SplitInsertedCIDRExecute(h, ms, newCidr, conflictedPoint, targetNode) ==
    LET sp == splitAround(h, ms, targetNode, Metadata(h, newCidr),
                          Depth(h, conflictedPoint))
    IN  Outcome(sp.h, sp.ms,
                appendAllAdded(ActionResult("Split Inserted CIDR"), sp.h,
                               sp.splittedCidrs, 1),
                sp.panic)

\* Split Existing CIDR that copies the new CIDR's entry into the fragments
SplitExistingCIDRExecuteNewMeta(h, ms, newCidr, conflictedPoint, targetNode) ==
    LET sp == splitAround(h, ms, newCidr, Metadata(h, newCidr),
                          Depth(h, conflictedPoint))
    IN  Outcome(sp.h, sp.ms,
                appendAllAdded(ActionResult("Split Existing CIDR"), sp.h,
                               sp.splittedCidrs, 1),
                sp.panic)

\* Split Existing CIDR that reports none of the fragments it attached
SplitExistingCIDRExecuteListsNone(h, ms, newCidr, conflictedPoint, targetNode) ==
    LET sp == splitAround(h, ms, newCidr, Metadata(h, targetNode),
                          Depth(h, conflictedPoint))
    IN  Outcome(sp.h, sp.ms, ActionResult("Split Existing CIDR"), sp.panic)

\* SplitExistingCIDR.Execute(newCidr, conflictedPoint, targetNode, _)
SplitExistingCIDRExecute(h, ms, newCidr, conflictedPoint, targetNode) ==
    LET sp == splitAround(h, ms, newCidr, Metadata(h, targetNode),
                          Depth(h, conflictedPoint))
    IN  Outcome(sp.h, sp.ms,
                appendAllAdded(ActionResult("Split Existing CIDR"), sp.h,
                               sp.splittedCidrs, 1),
                sp.panic)

\* step.Action.Execute(newCidrNode, lastNode, step.TargetNode, remainingPath)
Execute(action, h, ms, newCidr, conflictedPoint, targetNode, remainingPath) ==
    CASE action = "Ignore Insertion" ->
            IgnoreInsertionExecute(h, ms)
      [] action = "Insert New CIDR" ->
            InsertNewCIDRExecute(h, ms, newCidr, conflictedPoint, remainingPath)
      [] action = "Remove Existing CIDR" ->
            RemoveExistingCIDRExecute(h, ms, newCidr, targetNode)
      [] action = "Split Inserted CIDR" ->
            SplitInsertedCIDRExecute(h, ms, newCidr, conflictedPoint, targetNode)
      [] action = "Split Existing CIDR" ->
            SplitExistingCIDRExecute(h, ms, newCidr, conflictedPoint, targetNode)

----------------------------------------------------------------------------
(* pkg/supernet: the insertion engine.                                     *)

\* the loop of insertLeaf over plan.Steps from index i on; heaps[k] is the
\* node heap step k found when it began
RECURSIVE executeSteps(_, _, _, _, _, _, _, _)
executeSteps(h, ms, steps, i, newCidrNode, lastNode, remainingPath, actions) ==
    IF i > Len(steps)
    THEN [h |-> h, ms |-> ms, actions |-> actions, heaps |-> <<>>,
          panic |-> NoPanic]
    ELSE LET after(rest) == [rest EXCEPT !.heaps = <<h>> \o @]
             executed(o) ==
                 IF o.panic # NoPanic
                 THEN [h |-> o.h, ms |-> o.ms, actions |-> actions,
                       heaps |-> <<h>>, panic |-> o.panic]
                 ELSE after(executeSteps(o.h, o.ms, steps, i + 1, newCidrNode,
                                         lastNode, remainingPath,
                                         Append(actions, o.result)))
         IN  executed(Execute(steps[i].Action, h, ms, newCidrNode, lastNode,
                              steps[i].TargetNode, remainingPath))

\* insertLeaf(root, path, newCidrNode): the heaps afterwards and the
\* InsertionResult; plan is kept beside the result for the properties on it
insertLeaf(h, ms, root, path, newCidrNode) ==
    LET cidr == ms[Metadata(h, newCidrNode)].originCIDR
        res(conflictType, conflicts, actions) ==
            [CIDR |-> cidr, ConflictType |-> conflictType,
             ConflictedWith |-> conflicts, actions |-> actions]
        executed(bp, plan, ex) ==
            [h |-> ex.h, ms |-> ex.ms,
             result |-> res(bp.conflict, plan.Conflicts, ex.actions),
             plan |-> plan.Steps, lastNode |-> bp.lastNode,
             heaps |-> ex.heaps, panic |-> ex.panic]
        planned(bp, plan) ==
            IF plan.panic # NoPanic
            THEN [h |-> bp.h, ms |-> ms,
                  result |-> res(bp.conflict, plan.Conflicts, <<>>),
                  plan |-> plan.Steps, lastNode |-> bp.lastNode,
                  heaps |-> <<>>, panic |-> plan.panic]
            ELSE executed(bp, plan,
                     executeSteps(bp.h, ms, plan.Steps, 1, newCidrNode,
                                  bp.lastNode, bp.remainingPath, <<>>))
        built(bp) ==
            IF bp.panic # NoPanic
            THEN [h |-> bp.h, ms |-> ms, result |-> res(bp.conflict, <<>>, <<>>),
                  plan |-> <<>>, lastNode |-> bp.lastNode, heaps |-> <<>>,
                  panic |-> bp.panic]
            ELSE planned(bp, Resolve(bp.conflict, bp.h, ms, bp.lastNode,
                                     newCidrNode))
    IN  built(buildPath(h, root, path))

\* NewMetadata(ipnet)
NewMetadata(ipnet) ==
    [originCIDR |-> ipnet, IsV6 |-> To4IsNil(ipnet.IP), Priority |-> <<>>,
     Attributes |-> {}]

\* what InsertCidr hands back when it panics before insertLeaf
NoResult == [CIDR |-> NULL, ConflictType |-> "", ConflictedWith |-> <<>>,
             actions |-> <<>>]

\* InsertCidr choosing the trie by the family of the address alone
InsertCidrRootByFamily(h, ms, sup, ipnet, metadata) ==
    LET c2b == CidrToBits(ipnet)
        path == c2b.path
        depth == c2b.depth
        copyMetadata == IF metadata = NULL THEN Len(ms) + 1 ELSE metadata
        ms1 == IF metadata = NULL THEN Append(ms, NewMetadata(ipnet)) ELSE ms
        isV4 == ~To4IsNil(ipnet.IP)
        ms2 == IF isV4 THEN ms1 ELSE [ms1 EXCEPT ![copyMetadata].IsV6 = TRUE]
        root == IF isV4 THEN sup.ipv4Cidrs ELSE sup.ipv6Cidrs
        ms3 == [ms2 EXCEPT ![copyMetadata].Priority = Append(@, depth % 256),
                           ![copyMetadata].originCIDR = ipnet]
        newCidrNode == Len(h) + 1
        h1 == Append(h, NewTrieWithMetadata(copyMetadata))
        inserted(il) ==
            [h |-> il.h, ms |-> il.ms, result |-> il.result, plan |-> il.plan,
             lastNode |-> il.lastNode, newCidrNode |-> newCidrNode,
             heaps |-> il.heaps,
             logs |-> IF il.panic # NoPanic THEN <<>>
                      ELSE <<[ir |-> il.result, h |-> il.h]>>,
             panic |-> il.panic]
    IN  IF c2b.panic # NoPanic
        THEN [h |-> h, ms |-> ms, result |-> NoResult, plan |-> <<>>,
              lastNode |-> NULL, newCidrNode |-> NULL, heaps |-> <<>>,
              logs |-> <<>>,
              panic |-> c2b.panic]
        ELSE inserted(insertLeaf(h1, ms3, root, path, newCidrNode))

\* InsertCidr invoking super.logger once for every action of the report
InsertCidrLogsEachAction(h, ms, sup, ipnet, metadata) ==
    LET c2b == CidrToBits(ipnet)
        path == c2b.path
        depth == c2b.depth
        copyMetadata == IF metadata = NULL THEN Len(ms) + 1 ELSE metadata
        ms1 == IF metadata = NULL THEN Append(ms, NewMetadata(ipnet)) ELSE ms
        isV4 == ~To4IsNil(ipnet.IP)
        ms2 == IF isV4 THEN ms1 ELSE [ms1 EXCEPT ![copyMetadata].IsV6 = TRUE]
        root == IF ms2[copyMetadata].IsV6 THEN sup.ipv6Cidrs ELSE sup.ipv4Cidrs
        ms3 == [ms2 EXCEPT ![copyMetadata].Priority = Append(@, depth % 256),
                           ![copyMetadata].originCIDR = ipnet]
        newCidrNode == Len(h) + 1
        h1 == Append(h, NewTrieWithMetadata(copyMetadata))
        inserted(il) ==
            [h |-> il.h, ms |-> il.ms, result |-> il.result, plan |-> il.plan,
             lastNode |-> il.lastNode, newCidrNode |-> newCidrNode,
             heaps |-> il.heaps,
             logs |-> IF il.panic # NoPanic THEN <<>>
                      ELSE [k \in 1..Len(il.result.actions) |->
                               [ir |-> il.result, h |-> il.h]],
             panic |-> il.panic]
    IN  IF c2b.panic # NoPanic
        THEN [h |-> h, ms |-> ms, result |-> NoResult, plan |-> <<>>,
              lastNode |-> NULL, newCidrNode |-> NULL, heaps |-> <<>>,
              logs |-> <<>>,
              panic |-> c2b.panic]
        ELSE inserted(insertLeaf(h1, ms3, root, path, newCidrNode))

\* Supernet.InsertCidr(ipnet, metadata) on the store sup; metadata is a
\* pointer into ms, or NULL; logs is what super.logger is invoked with
InsertCidr(h, ms, sup, ipnet, metadata) ==
    LET c2b == CidrToBits(ipnet)
        path == c2b.path
        depth == c2b.depth
        copyMetadata == IF metadata = NULL THEN Len(ms) + 1 ELSE metadata
        ms1 == IF metadata = NULL THEN Append(ms, NewMetadata(ipnet)) ELSE ms
        isV4 == ~To4IsNil(ipnet.IP)
        ms2 == IF isV4 THEN ms1 ELSE [ms1 EXCEPT ![copyMetadata].IsV6 = TRUE]
        root == IF ms2[copyMetadata].IsV6 THEN sup.ipv6Cidrs ELSE sup.ipv4Cidrs
        ms3 == [ms2 EXCEPT ![copyMetadata].Priority = Append(@, depth % 256),
                           ![copyMetadata].originCIDR = ipnet]
        newCidrNode == Len(h) + 1
        h1 == Append(h, NewTrieWithMetadata(copyMetadata))
        inserted(il) ==
            [h |-> il.h, ms |-> il.ms, result |-> il.result, plan |-> il.plan,
             lastNode |-> il.lastNode, newCidrNode |-> newCidrNode,
             heaps |-> il.heaps,
             logs |-> IF il.panic # NoPanic THEN <<>>
                      ELSE <<[ir |-> il.result, h |-> il.h]>>,
             panic |-> il.panic]
    IN  IF c2b.panic # NoPanic
        THEN [h |-> h, ms |-> ms, result |-> NoResult, plan |-> <<>>,
              lastNode |-> NULL, newCidrNode |-> NULL, heaps |-> <<>>,
              logs |-> <<>>,
              panic |-> c2b.panic]
        ELSE inserted(insertLeaf(h1, ms3, root, path, newCidrNode))

\* the loop of LookupIP at index i (from 0) of ipBits; the returned
\* *net.IPNet is a set: empty for nil
RECURSIVE LookupLoop(_, _, _, _, _)
LookupLoop(h, supernet, ipBits, i, isV6) ==
    IF i >= Len(ipBits)
    THEN [cidr |-> {},
          panic |-> "LookupIP: reached an unexpected state, the CIDR trie traversal should not get here."]
    ELSE IF supernet = NULL
    THEN [cidr |-> {}, panic |-> NoPanic]
    ELSE IF IsLeaf(h, supernet)
    THEN [cidr |-> {BitsToCidr(SubSeq(ipBits, 1, i), isV6)}, panic |-> NoPanic]
    ELSE LookupLoop(h, Child(h, supernet, ipBits[i + 1]), ipBits, i + 1, isV6)

\* Supernet.LookupIP(ip) for a well-formed address text: ip.colon says
\* whether the text holds a colon, ip.addr is the address net.ParseCIDR
\* reads from it
LookupIP(h, sup, ip) ==
    LET isV6 == ip.colon
        mask == IF isV6 THEN 128 ELSE 32
        supernet == IF isV6 THEN sup.ipv6Cidrs ELSE sup.ipv4Cidrs
        parsedIP == IPNet(ip.addr, mask)
        walked(c2b) ==
            IF c2b.panic # NoPanic THEN [cidr |-> {}, panic |-> c2b.panic]
            ELSE LookupLoop(h, supernet, c2b.path, 0, isV6)
    IN  walked(CidrToBits(parsedIP))

\* Supernet.AllCIDRS(forV6): the node pointers Leafs returns
AllCIDRS(h, sup, forV6) ==
    Leafs(h, IF forV6 THEN sup.ipv6Cidrs ELSE sup.ipv4Cidrs)

----------------------------------------------------------------------------
(* The callers' inputs.                                                    *)

\* the CIDRs net.ParseCIDR yields for prefix lengths 1..maxMask: the
\* prefix bits sit in the first byte, every other bit is zero
ParsedCidrs(nBytes, maxMask) ==
    { IPNet([i \in 1..nBytes |-> IF i = 1 THEN b * Pow2(8 - n) ELSE 0], n) :
        <<n, b>> \in { nb \in (1..maxMask) \X (0..(Pow2(maxMask) - 1)) :
                         nb[2] < Pow2(nb[1]) } }

V4Cidrs == ParsedCidrs(4, MaxMaskV4)

V6Cidrs == ParsedCidrs(16, MaxMaskV6)

\* user priority vectors, all of one length
UserPriorities == { <<p>> : p \in 0..MaxPriority }

\* the &Metadata{Priority: ..., Attributes: ...} literal of the n-th call
UserMetadata(priority, n) ==
    [originCIDR |-> NULL, IsV6 |-> FALSE, Priority |-> priority,
     Attributes |-> {<<"id", n>>}]

----------------------------------------------------------------------------
(* The state machine.                                                      *)

\* no InsertCidr call made yet
NoCall == [CIDR |-> NULL, metadata |-> NULL, isV6 |-> FALSE,
           newCidrNode |-> NULL, lastNode |-> NULL, plan |-> <<>>,
           heaps |-> <<>>]

\* no call other than InsertCidr made since the last InsertCidr
NoReturn == [op |-> "", args |-> <<>>, value |-> NULL]

\* NewSupernet(WithCustomLogger(receiver)): two empty roots, and a receiver
\* that keeps what it is invoked with
Init ==
    /\ nodes = <<newPathNode, newPathNode>>
    /\ metas = <<>>
    /\ super = [ipv4Cidrs |-> 1, ipv6Cidrs |-> 2]
    /\ result = NoResult
    /\ panicked = NoPanic
    /\ call = NoCall
    /\ history = <<>>
    /\ ret = NoReturn
    /\ logged = <<>>

\* one call super.InsertCidr(ipnet, &literal): the caller allocates the
\* Metadata literal, then calls; a call that never returns leaves no state
\* behind it
InsertCall(ipnet, literal) ==
    /\ panicked = NoPanic
    /\ LET n == Len(history) + 1
           md == Len(metas) + 1
           returned(r) ==
               /\ r.panic # NeverReturns
               /\ nodes' = r.h
               /\ metas' = r.ms
               /\ result' = r.result
               /\ panicked' = r.panic
               /\ call' = [CIDR |-> ipnet, metadata |-> md,
                            isV6 |-> literal.IsV6,
                            newCidrNode |-> r.newCidrNode,
                            lastNode |-> r.lastNode, plan |-> r.plan,
                            heaps |-> r.heaps]
               /\ history' = Append(history,
                      [CIDR |-> ipnet, Priority |-> literal.Priority, id |-> n])
               /\ logged' = logged \o r.logs
       IN  returned(InsertCidr(nodes, Append(metas, literal), super, ipnet, md))
    /\ ret' = NoReturn
    /\ UNCHANGED super

\* one call super.InsertCidr(ipnet, &Metadata{Priority: ..., Attributes: ...})
Insert(ipnet, priority) ==
    /\ Len(history) < MaxInserts
    /\ InsertCall(ipnet, UserMetadata(priority, Len(history) + 1))

InsertV4 == \E ipnet \in V4Cidrs, priority \in UserPriorities : Insert(ipnet, priority)

InsertV6 == \E ipnet \in V6Cidrs, priority \in UserPriorities : Insert(ipnet, priority)

Next == InsertV4 \/ InsertV6

Spec == Init /\ [][Next]_vars

----------------------------------------------------------------------------
(* The whole interface: inserts of every kind of CIDR, and the reads.      *)

\* what net.ParseCIDR yields for a prefix length of 0
ZeroMaskCidrs == { IPNet(ZeroBytes(4), 0), IPNet(ZeroBytes(16), 0) }

\* full-width IPv4 CIDRs
FullWidthCidrs == { IPNet(ZeroBytes(4), 32), IPNet(<<255, 255, 255, 255>>, 32) }

\* the address texts handed to LookupIP: one per prefix the inserted CIDRs
\* tell apart, and the neighbours of the full-width CIDRs
LookupIPs ==
    { [colon |-> FALSE, addr |-> <<b * Pow2(8 - MaxMaskV4), 0, 0, 0>>] :
        b \in 0..(Pow2(MaxMaskV4) - 1) }
    \cup { [colon |-> FALSE, addr |-> <<0, 0, 0, 1>>],
           [colon |-> FALSE, addr |-> <<255, 255, 255, 255>>] }
    \cup { [colon |-> TRUE,
            addr |-> [i \in 1..16 |-> IF i = 1 THEN b * Pow2(8 - MaxMaskV6)
                                      ELSE 0]] :
             b \in 0..(Pow2(MaxMaskV6) - 1) }

\* an InsertCidr call of a run that also reads
ApiInsert(ipnet, literal) ==
    /\ Len(history) < MaxApiInserts
    /\ InsertCall(ipnet, literal)

ApiInsertV4 ==
    \E ipnet \in V4Cidrs, priority \in UserPriorities :
        ApiInsert(ipnet, UserMetadata(priority, Len(history) + 1))

ApiInsertV6 ==
    \E ipnet \in V6Cidrs, priority \in UserPriorities :
        ApiInsert(ipnet, UserMetadata(priority, Len(history) + 1))

InsertZeroMask ==
    \E ipnet \in ZeroMaskCidrs, priority \in UserPriorities :
        ApiInsert(ipnet, UserMetadata(priority, Len(history) + 1))

InsertFullWidth ==
    \E ipnet \in FullWidthCidrs, priority \in UserPriorities :
        ApiInsert(ipnet, UserMetadata(priority, Len(history) + 1))

\* an IPv4 CIDR handed over with &Metadata{IsV6: true, ...}
InsertFlaggedV6 ==
    \E ipnet \in V4Cidrs, priority \in UserPriorities :
        ApiInsert(ipnet, [UserMetadata(priority, Len(history) + 1)
                             EXCEPT !.IsV6 = TRUE])

\* a LookupIP call that walks with AttachChild, as buildPath does
LookupIPCallAttaching(ip) ==
    /\ LET returned(r) ==
               /\ ret' = [op |-> "LookupIP", args |-> <<ip>>, value |-> r.cidr]
               /\ panicked' = r.panic
       IN  returned(LookupIP(nodes, super, ip))
    /\ LET root == IF ip.colon THEN super.ipv6Cidrs ELSE super.ipv4Cidrs
           bit == BitOf(ip.addr, 0)
       IN  nodes' = AttachChild(nodes, root, newPathNode, bit).h
    /\ UNCHANGED <<metas, super, result, call, history, logged>>

\* the call super.LookupIP(ip) and what it leaves behind
LookupIPCall(ip) ==
    /\ LET returned(r) ==
               /\ ret' = [op |-> "LookupIP", args |-> <<ip>>, value |-> r.cidr]
               /\ panicked' = r.panic
       IN  returned(LookupIP(nodes, super, ip))
    /\ UNCHANGED <<nodes, metas, super, result, call, history, logged>>

\* the call super.AllCIDRS(forV6) and what it leaves behind
AllCIDRSCall(forV6) ==
    /\ ret' = [op |-> "AllCIDRS", args |-> <<forV6>>,
               value |-> AllCIDRS(nodes, super, forV6)]
    /\ UNCHANGED <<nodes, metas, super, result, panicked, call, history, logged>>

\* one call super.LookupIP(ip); a read leaves the store as it was, so the
\* first read after an insert shows all that a later one would
Lookup(ip) ==
    /\ panicked = NoPanic
    /\ ret = NoReturn
    /\ LookupIPCall(ip)

\* one call super.AllCIDRS(forV6)
Enumerate(forV6) ==
    /\ panicked = NoPanic
    /\ ret = NoReturn
    /\ AllCIDRSCall(forV6)

LookupCall == \E ip \in LookupIPs : Lookup(ip)

EnumerateCall == \E forV6 \in BOOLEAN : Enumerate(forV6)

ApiNext ==
    \/ ApiInsertV4
    \/ ApiInsertV6
    \/ InsertZeroMask
    \/ InsertFullWidth
    \/ InsertFlaggedV6
    \/ LookupCall
    \/ EnumerateCall

ApiSpec == Init /\ [][ApiNext]_vars

----------------------------------------------------------------------------
(* The pure helpers called on their own, one call in a run.                *)

\* priority vectors of every length up to MaxVectorLen
PriorityVectors ==
    UNION { [1..n -> 0..MaxComponent] : n \in 0..MaxVectorLen }

\* the bit vectors of the full address width handed to the codec
FullWidthBits(ipV6) ==
    LET w == IF ipV6 THEN 128 ELSE 32
    IN  { [i \in 1..w |-> 0], [i \in 1..w |-> 1], [i \in 1..w |-> i % 2] }

\* the non-empty bit vectors handed to the codec
CodecBits(ipV6) ==
    UNION { [1..n -> {0, 1}] : n \in 1..MaxCodecBits } \cup FullWidthBits(ipV6)

\* byte i (from 1) of the address whose leading bits are b, all other
\* bits zero
CanonicalByte(b, i) ==
    LET bit(k) == IF 8 * (i - 1) + k <= Len(b) THEN b[8 * (i - 1) + k] ELSE 0
    IN  128 * bit(1) + 64 * bit(2) + 32 * bit(3) + 16 * bit(4)
        + 8 * bit(5) + 4 * bit(6) + 2 * bit(7) + bit(8)

\* the canonical CIDR net.ParseCIDR yields for the prefix b
CanonicalCidr(b, ipV6) ==
    IPNet([i \in 1..(IF ipV6 THEN 16 ELSE 4) |-> CanonicalByte(b, i)], Len(b))

\* pkg/cli parseCIDR, one priority key: the component stored for the
\* parsed column value, uint8(value) after the flip
ParsePriority(value, FlipRankPriority) ==
    LET flipped == IF FlipRankPriority THEN value * (-1) ELSE value
    IN  flipped % 256

\* DefaultComparator(&Metadata{Priority: a}, &Metadata{Priority: b})
Compare(a, b) ==
    /\ panicked = NoPanic
    /\ ret = NoReturn
    /\ LET ms == <<[originCIDR |-> NULL, IsV6 |-> FALSE, Priority |-> a,
                    Attributes |-> {}],
                   [originCIDR |-> NULL, IsV6 |-> FALSE, Priority |-> b,
                    Attributes |-> {}]>>
           returned(c) ==
               /\ ret' = [op |-> "DefaultComparator", args |-> <<a, b>>,
                           value |-> c]
               /\ panicked' = IF c \in {"true", "false"} THEN NoPanic ELSE c
       IN  returned(DefaultComparator(ms, 1, 2))
    /\ UNCHANGED <<nodes, metas, super, result, call, history, logged>>

\* BitsToCidr(CidrToBits(c)) for a parsed CIDR c of the family ipV6
CidrRoundTrip(c, ipV6) ==
    /\ panicked = NoPanic
    /\ ret = NoReturn
    /\ LET encoded(e) ==
               /\ ret' = [op |-> "BitsToCidr(CidrToBits)", args |-> <<c, ipV6>>,
                           value |-> IF e.panic # NoPanic THEN NULL
                                     ELSE BitsToCidr(e.path, ipV6)]
               /\ panicked' = e.panic
       IN  encoded(CidrToBits(c))
    /\ UNCHANGED <<nodes, metas, super, result, call, history, logged>>

\* CidrToBits(BitsToCidr(b, ipV6)) for a bit vector b
BitsRoundTrip(b, ipV6) ==
    /\ panicked = NoPanic
    /\ ret = NoReturn
    /\ LET encoded(e) ==
               /\ ret' = [op |-> "CidrToBits(BitsToCidr)", args |-> <<b, ipV6>>,
                           value |-> [path |-> e.path, depth |-> e.depth]]
               /\ panicked' = e.panic
       IN  encoded(CidrToBits(BitsToCidr(b, ipV6)))
    /\ UNCHANGED <<nodes, metas, super, result, call, history, logged>>

\* parseCIDR on two records whose priority columns hold a and b
ParsePair(a, b, FlipRankPriority) ==
    /\ panicked = NoPanic
    /\ ret = NoReturn
    /\ ret' = [op |-> "parseCIDR", args |-> <<a, b, FlipRankPriority>>,
               value |-> << <<ParsePriority(a, FlipRankPriority)>>,
                            <<ParsePriority(b, FlipRankPriority)>> >>]
    /\ UNCHANGED <<nodes, metas, super, result, panicked, call, history, logged>>

CompareCall == \E a, b \in PriorityVectors : Compare(a, b)

ParsePairCall ==
    /\ ret = NoReturn
    /\ \E a, b \in 0..MaxPriorityValue, flip \in BOOLEAN : ParsePair(a, b, flip)

CidrRoundTripCall ==
    \E ipV6 \in BOOLEAN : \E b \in CodecBits(ipV6) :
        CidrRoundTrip(CanonicalCidr(b, ipV6), ipV6)

BitsRoundTripCall ==
    \E ipV6 \in BOOLEAN : \E b \in CodecBits(ipV6) : BitsRoundTrip(b, ipV6)

PureNext == CompareCall \/ CidrRoundTripCall \/ BitsRoundTripCall \/ ParsePairCall

PureSpec == Init /\ [][PureNext]_vars

----------------------------------------------------------------------------
(* Views of the store used to state the properties.                        *)

Roots == {super.ipv4Cidrs, super.ipv6Cidrs}

\* the nodes of the subtree hanging off t, each with the bits of the child
\* slots that lead to it from the node whose bits are `bits`
RECURSIVE Subtree(_, _, _)
Subtree(h, t, bits) ==
    {<<bits, t>>}
    \cup (IF h[t].children[1] = NULL THEN {}
          ELSE Subtree(h, h[t].children[1], Append(bits, 0)))
    \cup (IF h[t].children[2] = NULL THEN {}
          ELSE Subtree(h, h[t].children[2], Append(bits, 1)))

\* <<bits, node>> for every node that carries an entry in the trie of root
Entries(h, root) == { bn \in Subtree(h, root, <<>>) : h[bn[2]].metadata # NULL }

\* p is a prefix of q (or equal to it)
IsPrefix(p, q) == Len(p) <= Len(q) /\ SubSeq(q, 1, Len(p)) = p

\* the root InsertCidr selects for a CIDR given with a fresh metadata literal
RootOf(ipnet) == IF To4IsNil(ipnet.IP) THEN super.ipv6Cidrs ELSE super.ipv4Cidrs

\* the longest prefix length handed to the trie of root
MaxMaskOf(root) == IF root = super.ipv6Cidrs THEN MaxMaskV6 ELSE MaxMaskV4

\* the address classes of a trie: one per value of the leading bits the
\* inserted prefixes can tell apart
Addresses(root) == [1..MaxMaskOf(root) -> {0, 1}]

\* the entries of the trie whose prefix contains the address
Holders(h, root, addr) == { bn \in Entries(h, root) : IsPrefix(bn[1], addr) }

\* the calls of the history whose CIDR contains the address of that trie
Claimants(root, addr) ==
    { k \in 1..Len(history) :
        /\ RootOf(history[k].CIDR) = root
        /\ IsPrefix(CidrToBits(history[k].CIDR).path, addr) }

----------------------------------------------------------------------------
(* The claims.                                                             *)

\* C1: after any sequence of InsertCidr calls, no two distinct entry nodes of
\* one trie have nested root-to-node paths; every entry node is a leaf, and
\* the prefixes enumerated by Leafs are pairwise disjoint.
C1_EntriesDisjoint ==
    panicked = NoPanic =>
        \A root \in Roots :
            /\ \A e1, e2 \in Entries(nodes, root) :
                  e1 # e2 => ~IsPrefix(e1[1], e2[1])
            /\ \A e \in Entries(nodes, root) : IsLeaf(nodes, e[2])
            /\ LET ls == Leafs(nodes, root)
               IN  \A i, j \in 1..Len(ls) :
                      i # j => ~IsPrefix(Path(nodes, ls[i]), Path(nodes, ls[j]))

\* a winning Sub insert has split an entry: the trie holds several entries
C1_Witness ==
    /\ panicked = NoPanic
    /\ result.ConflictType = "SubCIDR"
    /\ Cardinality(Entries(nodes, super.ipv4Cidrs)) >= 3

\* C2: an address is covered by an entry of the store exactly when it lies
\* inside a CIDR that was passed to InsertCidr.
C2_CoverageIsUnionOfInserts ==
    panicked = NoPanic =>
        \A root \in Roots : \A addr \in Addresses(root) :
            (Holders(nodes, root, addr) # {}) <=> (Claimants(root, addr) # {})

\* a Super insert that lost ground to an entry: covered and uncovered
\* addresses both exist
C2_Witness ==
    /\ panicked = NoPanic
    /\ result.ConflictType = "SuperCIDR"
    /\ \E a \in Addresses(super.ipv4Cidrs) : Holders(nodes, super.ipv4Cidrs, a) = {}
    /\ \E a \in Addresses(super.ipv4Cidrs) : Holders(nodes, super.ipv4Cidrs, a) # {}

\* p comes before q in lexicographic order (vectors of one length)
LexLess(p, q) ==
    \E i \in 1..Len(p) :
        /\ i <= Len(q)
        /\ p[i] < q[i]
        /\ \A j \in 1..(i - 1) : p[j] = q[j]

\* the rank of a call: its user priority vector, then its prefix length
Rank(k) == Append(history[k].Priority, history[k].CIDR.Mask)

\* the call that should hold the address: greatest rank, latest among ties
Winner(root, addr) ==
    CHOOSE k \in Claimants(root, addr) :
        \A j \in Claimants(root, addr) :
            \/ LexLess(Rank(j), Rank(k))
            \/ (Rank(j) = Rank(k) /\ j <= k)

\* C3: with user priority vectors of one length, every covered address is
\* held by an entry whose origin is the inserted CIDR that contains the
\* address and has the greatest (user priority vector, prefix length), the
\* most recent call winning among exact ties.
C3_HighestPriorityHolds ==
    panicked = NoPanic =>
        \A root \in Roots : \A addr \in Addresses(root) :
            \A e \in Holders(nodes, root, addr) :
                LET k == Winner(root, addr)
                    md == metas[nodes[e[2]].metadata]
                IN  /\ md.originCIDR = history[k].CIDR
                    /\ md.Attributes = {<<"id", history[k].id>>}
                    /\ SubSeq(md.Priority, 1, Len(md.Priority) - 1)
                          = history[k].Priority

\* some address has three claimants and the one that holds it is neither
\* the first nor the last call
C3_Witness ==
    /\ panicked = NoPanic
    /\ \E addr \in Addresses(super.ipv4Cidrs) :
          /\ Cardinality(Claimants(super.ipv4Cidrs, addr)) = 3
          /\ Winner(super.ipv4Cidrs, addr) = 2
          /\ Holders(nodes, super.ipv4Cidrs, addr) # {}

\* C4: at the end of every complete InsertCidr call no node without an entry
\* has both child slots empty, except the root of a trie that stores nothing.
C4_NoBarePathLeaf ==
    panicked = NoPanic =>
        \A root \in Roots : \A bn \in Subtree(nodes, root, <<>>) :
            (IsLeaf(nodes, bn[2]) /\ nodes[bn[2]].metadata = NULL) => bn[2] = root

\* a Remove Existing CIDR has detached a branch two levels below the new
\* prefix, and a Split Inserted CIDR has run in the same call
C4_Witness ==
    /\ panicked = NoPanic
    /\ \E i \in 1..Len(result.actions) :
          /\ result.actions[i].Action = "Remove Existing CIDR"
          /\ result.actions[i].RemoveCidrs[1].depth >= result.CIDR.Mask + 2
    /\ \E i \in 1..Len(result.actions) :
          result.actions[i].Action = "Split Inserted CIDR"

\* C5: InsertCidr with a prefix length of at least 1 and a fresh entry of the
\* common priority length never panics: it executes every step of its plan
\* and returns a report with one outcome per step.
C5_NoInternalAbort ==
    /\ panicked = NoPanic
    /\ Len(result.actions) = Len(call.plan)
    /\ \A i \in 1..Len(call.plan) : result.actions[i].Action = call.plan[i].Action

\* a Super insert that removed every entry below it and then inserted itself
C5_Witness ==
    /\ panicked = NoPanic
    /\ result.ConflictType = "SuperCIDR"
    /\ Len(call.plan) >= 3
    /\ call.plan[Len(call.plan)].Action = "Insert New CIDR"
    /\ Len(result.actions) = Len(call.plan)

----------------------------------------------------------------------------
(* One InsertCidr call seen as a step: the trie before (nodes) and after   *)
(* (nodes'), the call (call') and its report (result').                    *)

\* the step is a completed InsertCidr call
Inserted == history' # history /\ panicked' = NoPanic

\* the bits of the CIDR of the call
NewBits == CidrToBits(call'.CIDR).path

\* the trie the call works on
NewRoot == RootOf(call'.CIDR)

\* prefer_new(N, entry) for the entry of node n as the call found it
PreferNew(n) == DefaultComparator(metas', call'.metadata, nodes[n].metadata) = "true"

\* the entries stored before the call strictly above, at, and below the new prefix
SuperOfNew == { e \in Entries(nodes, NewRoot) :
                  IsPrefix(e[1], NewBits) /\ e[1] # NewBits }

EqualToNew == { e \in Entries(nodes, NewRoot) : e[1] = NewBits }

SubsOfNew == { e \in Entries(nodes, NewRoot) :
                 IsPrefix(NewBits, e[1]) /\ e[1] # NewBits }

\* the bits of the sibling slot of the node at depth d on the path `bits`
SiblingSlot(bits, d) == Append(SubSeq(bits, 1, d - 1), 1 - bits[d])

\* the sibling slots of the nodes on the path `bits` below depth `top`
SlotsAround(bits, top) == { SiblingSlot(bits, d) : d \in (top + 1)..Len(bits) }

\* the entry of node n after the call is a copy of the Metadata md
CarriesCopyOf(n, md) ==
    LET m == metas'[nodes'[n].metadata]
    IN  /\ m.originCIDR = md.originCIDR
        /\ m.Priority = md.Priority
        /\ m.Attributes = md.Attributes
        /\ m.IsV6 = md.IsV6

\* the entry e of before the call is still in place after it, untouched
Kept(e) ==
    /\ e \in Entries(nodes', NewRoot)
    /\ nodes'[e[2]].metadata = nodes[e[2]].metadata
    /\ metas'[nodes[e[2]].metadata] = metas[nodes[e[2]].metadata]

\* the other trie is exactly as it was
OtherTrieUnchanged ==
    \A root \in Roots \ {NewRoot} :
        /\ Subtree(nodes', root, <<>>) = Subtree(nodes, root, <<>>)
        /\ \A bn \in Subtree(nodes, root, <<>>) : nodes'[bn[2]] = nodes[bn[2]]

\* the addresses of a trie that lie under the prefix `bits`
Under(root, bits) == { a \in Addresses(root) : IsPrefix(bits, a) }

\* C6: when the new CIDR N lies strictly inside an entry S and the comparator
\* prefers N, then after the insert S's node has no entry, N is an entry
\* leaf at its own path, the other new entries are exactly the
\* depth(N) - depth(S) fragments at the sibling slots of the nodes on the
\* path from N up to S (S excluded), N and the fragments cover S's former
\* range, and every entry outside S is unchanged.
C6_SubWinSplitsExisting ==
    [][ (Inserted /\ \E S \in SuperOfNew : PreferNew(S[2])) =>
          \A S \in SuperOfNew :
            LET after == Entries(nodes', NewRoot)
                N == <<NewBits, call'.newCidrNode>>
                fresh == { e \in after : e[2] > Len(nodes) } \ {N}
            IN  /\ nodes'[S[2]].metadata = NULL
                /\ S \in Subtree(nodes', NewRoot, <<>>)
                /\ N \in after
                /\ IsLeaf(nodes', N[2])
                /\ nodes'[N[2]].metadata = call'.metadata
                /\ Cardinality(fresh) = Len(NewBits) - Len(S[1])
                /\ { e[1] : e \in fresh } = SlotsAround(NewBits, Len(S[1]))
                /\ \A e \in fresh : CarriesCopyOf(e[2], metas[nodes[S[2]].metadata])
                /\ \A a \in Under(NewRoot, S[1]) :
                      \E e \in fresh \cup {N} : IsPrefix(e[1], a)
                /\ \A e \in fresh \cup {N} : IsPrefix(S[1], e[1])
                /\ after = (Entries(nodes, NewRoot) \ {S}) \cup fresh \cup {N}
                /\ \A e \in Entries(nodes, NewRoot) \ {S} : Kept(e)
                /\ OtherTrieUnchanged
      ]_vars

\* a /3 has won against a /1: two fragments stand beside it
C6_Witness ==
    /\ panicked = NoPanic
    /\ result.ConflictType = "SubCIDR"
    /\ result.CIDR.Mask = 3
    /\ Len(result.actions) = 3
    /\ Len(result.actions[2].AddedCidrs) = 2
    /\ result.actions[3].RemoveCidrs[1].depth = 1

\* the step is a Super conflict: the node of the new prefix exists, has no
\* entry, and entries are stored below it
SuperStep == Inserted /\ SubsOfNew # {}

Losers == { e \in SubsOfNew : PreferNew(e[2]) }

Winners == SubsOfNew \ Losers

\* C7: in a Super conflict every existing entry under N that prefer_new
\* rejects is gone after the insert, every other one is still at its path
\* with its entry data, and N is either the single entry leaf at its own
\* path (no survivor) or present only as fragments, which fill every empty
\* sibling slot on the paths from the survivors up to N's node.
C7_SuperRemovesLosersSplitsAroundWinners ==
    [][ SuperStep =>
          LET after == { e \in Entries(nodes', NewRoot) : IsPrefix(NewBits, e[1]) }
              fresh == after \ Winners
              slots == UNION { SlotsAround(w[1], Len(NewBits)) : w \in Winners }
              taken == { p \in slots : \E w \in Winners : IsPrefix(p, w[1]) }
          IN  /\ \A l \in Losers :
                    /\ l[2] \notin { bn[2] : bn \in Subtree(nodes', NewRoot, <<>>) }
                    /\ \A e \in after : e[1] = l[1] => e[2] > Len(nodes)
              /\ \A w \in Winners : Kept(w)
              /\ \A e \in fresh : e[2] > Len(nodes)
              /\ \A e \in fresh : CarriesCopyOf(e[2], metas'[call'.metadata])
              /\ Winners = {} =>
                    /\ fresh = {<<NewBits, call'.newCidrNode>>}
                    /\ IsLeaf(nodes', call'.newCidrNode)
                    /\ nodes'[call'.newCidrNode].metadata = call'.metadata
              /\ Winners # {} =>
                    /\ \A e \in fresh : e[1] # NewBits
                    /\ { e[1] : e \in fresh } = slots \ taken
                    /\ \A p \in slots :
                          \E bn \in Subtree(nodes', NewRoot, <<>>) : bn[1] = p
              /\ \A e \in Entries(nodes, NewRoot) \ SubsOfNew : Kept(e)
              /\ OtherTrieUnchanged
      ]_vars

\* a Super insert with a loser and a survivor below it
C7_Witness ==
    /\ panicked = NoPanic
    /\ result.ConflictType = "SuperCIDR"
    /\ \E i, j \in 1..Len(result.actions) :
          /\ result.actions[i].Action = "Remove Existing CIDR"
          /\ result.actions[j].Action = "Split Inserted CIDR"
          /\ Len(result.actions[j].AddedCidrs) >= 1

\* the Action of every outcome of a report, in order
Tags(actions) == [i \in 1..Len(actions) |-> actions[i].Action]

\* n copies of x
Repeat(x, n) == [i \in 1..n |-> x]

\* C8: for a Super conflict the outcomes are one Remove Existing CIDR per
\* losing entry, each listing exactly that entry as removed, then one Split
\* Inserted CIDR per winning entry, then a single Insert New CIDR exactly
\* when there is no winning entry; the outcomes follow the plan's order.
C8_SuperReportOrder ==
    [][ SuperStep =>
          LET acts == result'.actions
              nl == Cardinality(Losers)
              nw == Cardinality(Winners)
          IN  /\ result'.ConflictType = "SuperCIDR"
              /\ Tags(acts) = Repeat("Remove Existing CIDR", nl)
                              \o Repeat("Split Inserted CIDR", nw)
                              \o (IF nw = 0 THEN <<"Insert New CIDR">> ELSE <<>>)
              /\ \A i \in 1..nl :
                    /\ Len(acts[i].RemoveCidrs) = 1
                    /\ acts[i].AddedCidrs = <<>>
                    /\ \E l \in Losers : acts[i].RemoveCidrs[1] = nodes[l[2]]
              /\ \A l \in Losers :
                    \E i \in 1..nl : acts[i].RemoveCidrs[1] = nodes[l[2]]
              /\ \A i \in (nl + 1)..Len(acts) : acts[i].RemoveCidrs = <<>>
              /\ Tags(acts) = Tags(call'.plan)
              /\ \A i \in 1..nl :
                    acts[i].RemoveCidrs[1] = nodes[call'.plan[i].TargetNode]
      ]_vars

\* a Super report with two removals followed by the insertion
C8_Witness ==
    /\ panicked = NoPanic
    /\ result.ConflictType = "SuperCIDR"
    /\ Tags(result.actions) = <<"Remove Existing CIDR", "Remove Existing CIDR",
                                "Insert New CIDR">>

\* the new CIDR loses an Equal or a Sub conflict
LosingStep ==
    /\ Inserted
    /\ \E e \in SuperOfNew \cup EqualToNew : ~PreferNew(e[2])

\* C9: when the new CIDR loses an Equal or Sub conflict the plan is the
\* single action Ignore Insertion, the trie after the insert is the trie
\* before it, and the report lists nothing added or removed.
C9_IgnoreLeavesTrieUnchanged ==
    [][ LosingStep =>
          /\ result'.ConflictType \in {"EqualCIDR", "SubCIDR"}
          /\ Tags(call'.plan) = <<"Ignore Insertion">>
          /\ result'.actions = <<ActionResult("Ignore Insertion")>>
          /\ \A root \in Roots :
                Subtree(nodes', root, <<>>) = Subtree(nodes, root, <<>>)
          /\ \A i \in 1..Len(nodes) : nodes'[i] = nodes[i]
          /\ \A i \in 1..Len(metas) : metas'[i] = metas[i]
      ]_vars

\* a /3 was ignored below a stronger /1
C9_Witness ==
    /\ panicked = NoPanic
    /\ result.ConflictType = "SubCIDR"
    /\ result.CIDR.Mask = 3
    /\ Tags(result.actions) = <<"Ignore Insertion">>
    /\ result.ConflictedWith[1].depth = 1

\* C10: two overlapping CIDRs of different prefix lengths inserted with the
\* same user priority vector: the longer one keeps its whole range and the
\* shorter one is present only as the fragments around it, in either order
\* of insertion.
C10_LongerPrefixWinsEqualPriority ==
    (/\ panicked = NoPanic
     /\ Len(history) = 2
     /\ history[1].Priority = history[2].Priority
     /\ history[1].CIDR.Mask # history[2].CIDR.Mask
     /\ RootOf(history[1].CIDR) = RootOf(history[2].CIDR)
     /\ \/ IsPrefix(CidrToBits(history[1].CIDR).path, CidrToBits(history[2].CIDR).path)
        \/ IsPrefix(CidrToBits(history[2].CIDR).path, CidrToBits(history[1].CIDR).path))
    =>
    LET long == IF history[1].CIDR.Mask > history[2].CIDR.Mask THEN 1 ELSE 2
        short == 3 - long
        lbits == CidrToBits(history[long].CIDR).path
        sbits == CidrToBits(history[short].CIDR).path
        es == Entries(nodes, RootOf(history[1].CIDR))
        origin(e) == metas[nodes[e[2]].metadata].originCIDR
        tag(e) == metas[nodes[e[2]].metadata].Attributes
    IN  /\ \E e \in es : /\ e[1] = lbits
                         /\ origin(e) = history[long].CIDR
                         /\ tag(e) = {<<"id", long>>}
        /\ { e[1] : e \in es } = {lbits} \cup SlotsAround(lbits, Len(sbits))
        /\ \A e \in es : e[1] # lbits =>
              /\ origin(e) = history[short].CIDR
              /\ tag(e) = {<<"id", short>>}

\* the shorter prefix came second and was split around the longer one
C10_Witness ==
    /\ panicked = NoPanic
    /\ Len(history) = 2
    /\ history[1].Priority = history[2].Priority
    /\ history[1].CIDR.Mask = 3
    /\ history[2].CIDR.Mask = 1
    /\ result.ConflictType = "SuperCIDR"
    /\ Tags(result.actions) = <<"Split Inserted CIDR">>
    /\ Len(result.actions[1].AddedCidrs) = 2

----------------------------------------------------------------------------
(* Relations between runs.                                                 *)

\* the entries of a trie as data: the prefix bits and the Metadata struct
EntryView(h, ms, root) ==
    { <<bn[1], ms[h[bn[2]].metadata]>> : bn \in Entries(h, root) }

\* the entry data with the tag of call `from` read as the tag of call `to`:
\* two calls made with the same attributes
Retag(view, from, to) ==
    { <<e[1], IF e[2].Attributes = {<<"id", from>>}
              THEN [e[2] EXCEPT !.Attributes = {<<"id", to>>}]
              ELSE e[2]>> : e \in view }

\* the InsertCidr call about to return repeats the previous call: the same
\* CIDR, priority and attributes
RepeatStep ==
    /\ history' # history
    /\ Len(history) >= 1
    /\ history'[Len(history')].CIDR = history[Len(history)].CIDR
    /\ history'[Len(history')].Priority = history[Len(history)].Priority

\* C14: from any reachable store, calling InsertCidr a second time in a row
\* with the same CIDR, priority and attributes leaves the same set of
\* entries (CIDR, origin, priority, attributes) as the first call left.
C14_RepeatedInsertIsIdempotent ==
    [][RepeatStep =>
          /\ panicked' = NoPanic
          /\ \A root \in Roots :
                Retag(EntryView(nodes', metas', root),
                      Len(history'), Len(history))
                   = EntryView(nodes, metas, root)]_vars

\* the repeated call met a Super conflict: the first call had been split
\* around an entry that outranks it
C14_Witness ==
    /\ panicked = NoPanic
    /\ Len(history) = 3
    /\ history[3].CIDR = history[2].CIDR
    /\ history[3].Priority = history[2].Priority
    /\ result.ConflictType = "SuperCIDR"
    /\ \E i \in 1..Len(result.actions) :
          result.actions[i].Action = "Split Inserted CIDR"

\* the store after the calls hist[1..k] made from the empty store
RECURSIVE Replay(_, _)
Replay(hist, k) ==
    IF k = 0 THEN [h |-> <<newPathNode, newPathNode>>, ms |-> <<>>]
    ELSE LET before == Replay(hist, k - 1)
             after(r) == [h |-> r.h, ms |-> r.ms]
         IN  after(InsertCidr(before.h,
                              Append(before.ms,
                                     UserMetadata(hist[k].Priority, hist[k].id)),
                              super, hist[k].CIDR, Len(before.ms) + 1))

\* the history without its entry k
Without(hist, k) == SubSeq(hist, 1, k - 1) \o SubSeq(hist, k + 1, Len(hist))

\* the last two calls X, Y name the same CIDR and Y is preferred to X
SupersededCall ==
    /\ panicked = NoPanic
    /\ Len(history) >= 2
    /\ history[Len(history)].CIDR = history[Len(history) - 1].CIDR
    /\ ~LexLess(history[Len(history)].Priority,
                history[Len(history) - 1].Priority)

\* C15: from the same starting store, inserting X and then Y, where X and Y
\* have the same CIDR and prefer_new(Y, X) is true, leaves the same set of
\* entries (CIDRs and entry data) as inserting Y alone.
C15_SupersededInsertLeavesNoTrace ==
    SupersededCall =>
        LET alone == Replay(Without(history, Len(history) - 1),
                            Len(history) - 1)
        IN  \A root \in Roots :
               EntryView(nodes, metas, root) = EntryView(alone.h, alone.ms, root)

\* Y replaced X at its node after a third CIDR had been stored: an Equal
\* conflict that Y won with a strictly higher priority
C15_Witness ==
    /\ SupersededCall
    /\ Len(history) = 3
    /\ LexLess(history[2].Priority, history[3].Priority)
    /\ result.ConflictType = "EqualCIDR"
    /\ Len(result.actions) = 2

----------------------------------------------------------------------------
(* The comparator and the codec on their own.                              *)

\* C11: for two priority vectors of one length the comparator returns true
\* exactly when the new vector is lexicographically greater than or equal
\* to the old one; fully equal vectors return true.
C11_ComparatorIsLexGreaterOrEqual ==
    (ret.op = "DefaultComparator" /\ Len(ret.args[1]) = Len(ret.args[2])) =>
        /\ panicked = NoPanic
        /\ ret.value = IF LexLess(ret.args[1], ret.args[2]) THEN "false"
                       ELSE "true"

\* two vectors that agree on the first component and differ on the second
C11_Witness ==
    /\ ret.op = "DefaultComparator"
    /\ Len(ret.args[1]) = 2
    /\ Len(ret.args[2]) = 2
    /\ ret.args[1][1] = ret.args[2][1]
    /\ ret.args[1][2] < ret.args[2][2]
    /\ ret.value = "false"

\* C18: for every canonical CIDR c with prefix length at least 1,
\* BitsToCidr(CidrToBits(c)) equals c; for every non-empty bit vector b no
\* longer than the address width, CidrToBits(BitsToCidr(b)) returns b and
\* the last index Len(b) - 1.
C18_CodecRoundTrip ==
    /\ (ret.op = "BitsToCidr(CidrToBits)" /\ ret.args[1].Mask >= 1) =>
           /\ panicked = NoPanic
           /\ ret.value = ret.args[1]
    /\ ret.op = "CidrToBits(BitsToCidr)" =>
           /\ panicked = NoPanic
           /\ ret.value = [path |-> ret.args[1], depth |-> Len(ret.args[1]) - 1]

\* an IPv6 prefix of nine bits, the ninth set: the path runs into the
\* second byte
C18_Witness ==
    /\ ret.op = "BitsToCidr(CidrToBits)"
    /\ ret.args[2]
    /\ ret.args[1].Mask = 9
    /\ ret.args[1].IP[2] = 128
    /\ ret.value = ret.args[1]

\* C19: when the two priority vectors differ in length, the comparator
\* decides on their common prefix (the first min-length components) and
\* returns a result without failing, whichever vector is the longer one.
C19_ComparatorDecidesOnCommonPrefix ==
    (ret.op = "DefaultComparator" /\ Len(ret.args[1]) # Len(ret.args[2])) =>
        LET n == IF Len(ret.args[1]) < Len(ret.args[2])
                 THEN Len(ret.args[1]) ELSE Len(ret.args[2])
        IN  /\ panicked = NoPanic
            /\ ret.value = IF LexLess(SubSeq(ret.args[1], 1, n),
                                      SubSeq(ret.args[2], 1, n))
                           THEN "false" ELSE "true"

----------------------------------------------------------------------------
(* The reads.                                                              *)

\* the 32 or 128 bits of an address
AddressBits(addr) == [k \in 1..(8 * Len(addr)) |-> BitOf(addr, k - 1)]

\* the entries of the trie LookupIP walks whose prefix contains the address
Containing(ip) ==
    { bn \in Entries(nodes, IF ip.colon THEN super.ipv6Cidrs
                             ELSE super.ipv4Cidrs) :
        IsPrefix(bn[1], AddressBits(ip.addr)) }

\* C12: on every store reachable by inserts, the empty store included,
\* LookupIP returns the CIDR of the entry leaf whose prefix contains the IP
\* when there is one, and no match when no stored entry contains the IP.
C12_LookupReturnsContainingEntry ==
    ret.op = "LookupIP" =>
        /\ panicked = NoPanic
        /\ IF Containing(ret.args[1]) = {}
           THEN ret.value = {}
           ELSE \E bn \in Containing(ret.args[1]) :
                   /\ IsLeaf(nodes, bn[2])
                   /\ ret.value = {CanonicalCidr(bn[1], ret.args[1].colon)}

\* C13: on every store reachable by inserts, full-width entries included,
\* the LookupIP walk returns a match or no match and never falls through
\* its bit loop into the unexpected-state abort.
C13_LookupNeverFallsThrough ==
    ret.op = "LookupIP" => panicked = NoPanic

----------------------------------------------------------------------------
(* The inserts InsertCidr is not meant for.                                *)

\* the step is an InsertCidr call
InsertStep == history' # history

\* no node of the trie below root was created, removed or changed
SameTrie(root) ==
    /\ Subtree(nodes', root, <<>>) = Subtree(nodes, root, <<>>)
    /\ \A bn \in Subtree(nodes, root, <<>>) :
          /\ nodes'[bn[2]] = nodes[bn[2]]
          /\ nodes[bn[2]].metadata # NULL =>
                metas'[nodes[bn[2]].metadata] = metas[nodes[bn[2]].metadata]

\* C16: an insert of a CIDR of prefix length 0, IPv4 or IPv6, fails, the
\* failed call creates or changes no node of either trie, and no root ever
\* holds an entry.
C16_ZeroPrefixInsertFails ==
    [][ /\ (InsertStep /\ call'.CIDR.Mask = 0) =>
              /\ panicked' # NoPanic
              /\ result'.actions = <<>>
              /\ SameTrie(super.ipv4Cidrs)
              /\ SameTrie(super.ipv6Cidrs)
        /\ nodes'[super'.ipv4Cidrs].metadata = NULL
        /\ nodes'[super'.ipv6Cidrs].metadata = NULL
      ]_vars

\* ::/0 was refused by a store that holds an entry
C16_Witness ==
    /\ panicked = "cidrToBits: network Mask /0 not valid"
    /\ Len(history) = 2
    /\ call.CIDR = IPNet(ZeroBytes(16), 0)
    /\ Entries(nodes, super.ipv4Cidrs) # {}

\* the step is an InsertCidr call whose entry says IPv6 for an IPv4 CIDR,
\* or IPv4 for an IPv6 CIDR
MismatchStep == InsertStep /\ call'.isV6 # To4IsNil(call'.CIDR.IP)

\* C17 as stated: an InsertCidr call whose entry's is_v6 flag disagrees
\* with the family of the CIDR fails and leaves both tries unmodified.
C17_MismatchedVersionRejected ==
    [][ MismatchStep =>
          /\ panicked' # NoPanic
          /\ SameTrie(super.ipv4Cidrs)
          /\ SameTrie(super.ipv6Cidrs)
      ]_vars

\* C17 amended: an InsertCidr call of a CIDR of prefix length at least 1
\* whose entry's is_v6 flag disagrees with the family of the CIDR does
\* not fail: it leaves the entry's flag true, carries the insertion out in
\* the IPv6 trie (a CIDR meeting no conflict is an entry there at its bit
\* path) and leaves the IPv4 trie unmodified.
C17_MismatchedFlagGoesToV6 ==
    [][ (MismatchStep /\ call'.CIDR.Mask >= 1) =>
          /\ panicked' = NoPanic
          /\ result'.actions # <<>>
          /\ metas'[call'.metadata].IsV6
          /\ SameTrie(super.ipv4Cidrs)
          /\ result'.ConflictType = "NoConflict" =>
                \E bn \in Entries(nodes', super.ipv6Cidrs) :
                    /\ bn[1] = CidrToBits(call'.CIDR).path
                    /\ nodes'[bn[2]].metadata = call'.metadata
      ]_vars

\* an IPv4 CIDR handed over with the flag set became an entry of the IPv6
\* trie of a store that holds an IPv4 entry
C17_Witness ==
    /\ panicked = NoPanic
    /\ Len(history) = 2
    /\ call.isV6
    /\ ~To4IsNil(call.CIDR.IP)
    /\ Entries(nodes, super.ipv4Cidrs) # {}
    /\ \E bn \in Entries(nodes, super.ipv6Cidrs) :
          /\ bn[1] = CidrToBits(call.CIDR).path
          /\ nodes[bn[2]].metadata = call.metadata

----------------------------------------------------------------------------
(* The enumeration.                                                        *)

\* the base address of the CIDR a node stands for
BaseAddress(n, forV6) == BitsToCidr(Path(nodes, n), forV6).IP

\* C20: AllCIDRS returns every entry leaf of the trie exactly once, in
\* preorder with the bit-0 child before the bit-1 child, and so in strictly
\* ascending order of base address.
C20_EnumerationIsAscending ==
    ret.op = "AllCIDRS" =>
        LET forV6 == ret.args[1]
            root == IF forV6 THEN super.ipv6Cidrs ELSE super.ipv4Cidrs
            ls == ret.value
        IN  /\ \A i, j \in 1..Len(ls) : i # j => ls[i] # ls[j]
            /\ { ls[i] : i \in 1..Len(ls) }
                 = { bn[2] : bn \in Entries(nodes, root) }
            /\ \A i \in 1..Len(ls) : IsLeaf(nodes, ls[i])
            /\ \A i, j \in 1..Len(ls) :
                  i < j =>
                    /\ LexLess(Path(nodes, ls[i]), Path(nodes, ls[j]))
                    /\ LexLess(BaseAddress(ls[i], forV6),
                               BaseAddress(ls[j], forV6))

\* an enumeration of three entries or more, of more than one depth
C20_Witness ==
    /\ ret.op = "AllCIDRS"
    /\ Len(ret.value) >= 3
    /\ \E i, j \in 1..Len(ret.value) :
          nodes[ret.value[i]].depth # nodes[ret.value[j]].depth

\* what a holder of the node pointer p reads through it: the bit path of
\* the node and its Metadata (a set: empty for nil)
SeenThrough(h, ms, p) ==
    [CIDR |-> Path(h, p),
     entry |-> IF h[p].metadata = NULL THEN {} ELSE {ms[h[p].metadata]}]

\* C21: the list AllCIDRS returned is a value copy: the CIDR and the entry
\* data of each of its elements, read through the list, are unchanged by a
\* later InsertCidr on the store.
C21_EnumerationIsValueCopy ==
    [][ (ret.op = "AllCIDRS" /\ InsertStep) =>
          \A i \in 1..Len(ret.value) :
              SeenThrough(nodes', metas', ret.value[i])
                  = SeenThrough(nodes, metas, ret.value[i])
      ]_vars

----------------------------------------------------------------------------
(* The report receiver.                                                    *)

\* C22: the receiver set with the report-sink option is invoked exactly
\* once for every InsertCidr call that returns, after every action of that
\* insert was executed, with the report InsertCidr returns; no other call
\* invokes it.
C22_ReceiverInvokedOncePerInsert ==
    [][ IF InsertStep /\ panicked' = NoPanic
        THEN logged' = Append(logged, [ir |-> result', h |-> nodes'])
        ELSE logged' = logged
      ]_vars

\* the receiver got the report of a second insert that ran several actions
C22_Witness ==
    /\ panicked = NoPanic
    /\ Len(history) = 2
    /\ Len(logged) = 2
    /\ logged[2].ir = result
    /\ Len(result.actions) >= 3
    /\ logged[2].h = nodes

----------------------------------------------------------------------------
(* The file parser's priorities.                                           *)

\* C23: with the flip-rank-priority flag set, of two input priority values
\* a < b in 0..255 the stored component of a is strictly greater than that
\* of b, so that the comparator prefers the record of a to the record of b.
C23_FlipReversesPriorityOrder ==
    (/\ ret.op = "parseCIDR"
     /\ ret.args[3]
     /\ ret.args[1] < ret.args[2]) =>
        /\ ret.value[1][1] > ret.value[2][1]
        /\ ComparatorLoop(ret.value[1], ret.value[2], 1) = "true"
        /\ ComparatorLoop(ret.value[2], ret.value[1], 1) = "false"

----------------------------------------------------------------------------
(* Classification, report and plan of one insert.                          *)

\* C24: classifying a new CIDR N yields Equal exactly when an entry with
\* N's path is stored, Sub exactly when an entry is stored whose path is a
\* strict prefix of N's, Super exactly when an entry is stored whose path
\* strictly extends N's, and no conflict otherwise; the conflict node is
\* that entry's node for Equal and Sub, and the node at N's path for Super
\* (the one that was there) and for no conflict (a new one).
C24_ClassificationMatchesStore ==
    [][ Inserted =>
          /\ (result'.ConflictType = "EqualCIDR") <=> (EqualToNew # {})
          /\ (result'.ConflictType = "SubCIDR") <=> (SuperOfNew # {})
          /\ (result'.ConflictType = "SuperCIDR") <=> (SubsOfNew # {})
          /\ (result'.ConflictType = "NoConflict") <=>
                (EqualToNew \cup SuperOfNew \cup SubsOfNew = {})
          /\ result'.ConflictType = "EqualCIDR" =>
                \E e \in EqualToNew : call'.lastNode = e[2]
          /\ result'.ConflictType = "SubCIDR" =>
                \E e \in SuperOfNew : call'.lastNode = e[2]
          /\ result'.ConflictType = "SuperCIDR" =>
                /\ <<NewBits, call'.lastNode>> \in Subtree(nodes, NewRoot, <<>>)
                /\ nodes[call'.lastNode].metadata = NULL
          /\ result'.ConflictType = "NoConflict" =>
                /\ call'.lastNode > Len(nodes)
                /\ Path(nodes', call'.lastNode) = NewBits
      ]_vars

\* a third insert was classified Sub below an entry two levels up
C24_Witness ==
    /\ panicked = NoPanic
    /\ Len(history) = 3
    /\ result.ConflictType = "SubCIDR"
    /\ call.CIDR.Mask = nodes[call.lastNode].depth + 2

\* the entries stored before the call whose CIDR overlaps the new CIDR
Overlapping == EqualToNew \cup SuperOfNew \cup SubsOfNew

\* C25: the report's conflicted-with list holds exactly the entries stored
\* before the insert whose CIDR overlaps the new CIDR, each once: the one
\* incumbent for Equal, the one supernet for Sub, every entry under the new
\* prefix for Super, none for no conflict.
C25_ConflictedWithIsTheOverlap ==
    [][ Inserted =>
          LET cw == result'.ConflictedWith
          IN  /\ Len(cw) = Cardinality(Overlapping)
              /\ { cw[i] : i \in 1..Len(cw) }
                   = { nodes[e[2]] : e \in Overlapping }
              /\ result'.ConflictType = "EqualCIDR" =>
                    Len(cw) = 1 /\ Overlapping = EqualToNew
              /\ result'.ConflictType = "SubCIDR" =>
                    Len(cw) = 1 /\ Overlapping = SuperOfNew
              /\ result'.ConflictType = "SuperCIDR" =>
                    Len(cw) >= 1 /\ Overlapping = SubsOfNew
              /\ result'.ConflictType = "NoConflict" => Len(cw) = 0
      ]_vars

\* a Super insert met two entries under its prefix, beat one and lost to
\* the other
C25_Witness ==
    /\ panicked = NoPanic
    /\ result.ConflictType = "SuperCIDR"
    /\ Len(result.ConflictedWith) = 2
    /\ \E i, j \in 1..Len(result.actions) :
          /\ result.actions[i].Action = "Remove Existing CIDR"
          /\ result.actions[j].Action = "Split Inserted CIDR"

\* the step is an InsertCidr call of a CIDR inside a stored entry that the
\* comparator prefers it to
SubWinStep == InsertStep /\ \E S \in SuperOfNew : PreferNew(S[2])

\* C26: the plan of a winning Sub conflict runs Insert New CIDR, Split
\* Existing CIDR, Remove Existing CIDR in this order; when Split Existing
\* CIDR begins the new CIDR's node is attached at its path and the existing
\* supernet still has its entry, which only the last step clears.
C26_SubWinOrder ==
    [][ SubWinStep =>
          LET order == <<"Insert New CIDR", "Split Existing CIDR",
                         "Remove Existing CIDR">>
              hs == call'.heaps
              S == call'.lastNode
              N == <<NewBits, call'.newCidrNode>>
          IN  /\ panicked' = NoPanic
              /\ Tags(call'.plan) = order
              /\ Tags(result'.actions) = order
              /\ Len(hs) = 3
              /\ N \notin Subtree(hs[1], NewRoot, <<>>)
              /\ N \in Subtree(hs[2], NewRoot, <<>>)
              /\ hs[1][S].metadata = nodes[S].metadata
              /\ hs[2][S].metadata = nodes[S].metadata
              /\ hs[3][S].metadata = nodes[S].metadata
              /\ nodes[S].metadata # NULL
              /\ nodes'[S].metadata = NULL
      ]_vars

\* a /3 won against a /1 as the third insert of a run
C26_Witness ==
    /\ panicked = NoPanic
    /\ Len(history) = 3
    /\ result.ConflictType = "SubCIDR"
    /\ Len(call.heaps) = 3
    /\ call.CIDR.Mask = nodes[call.lastNode].depth + 2
    /\ nodes[call.lastNode].metadata = NULL
    /\ call.heaps[3][call.lastNode].metadata # NULL

----------------------------------------------------------------------------
(* The steps of a plan, each on the heap it began with.                    *)

\* the steps of the call's plan that ran
StepsRun == 1..Len(call'.heaps)

\* the node heap step k left behind
HeapAfter(k) == IF k < Len(call'.heaps) THEN call'.heaps[k + 1] ELSE nodes'

\* step k cleared the entry of the node T and changed nothing else
ClearedInPlace(k, T) ==
    HeapAfter(k) = [call'.heaps[k] EXCEPT ![T].metadata = NULL]

\* step k took the branch of T off the trie with the given limit depth,
\* leaving T's entry on the node
DetachedBranch(k, T, limit) ==
    /\ HeapAfter(k) = DetachBranch(call'.heaps[k], T, limit).h
    /\ HeapAfter(k)[T].metadata = call'.heaps[k][T].metadata
    /\ \A bn \in Subtree(HeapAfter(k), NewRoot, <<>>) : bn[2] # T

\* the Remove Existing CIDR steps of the call that ran
RemoveSteps ==
    { k \in StepsRun : call'.plan[k].Action = "Remove Existing CIDR" }

\* C27 as stated: Remove Existing CIDR clears the target's entry in place
\* when the target's depth is greater than or equal to the inserted CIDR's
\* depth, and otherwise detaches the target's branch with limit depth
\* inserted depth + 1.
C27_RemoveClearsDeeperTarget ==
    [][ InsertStep =>
          \A k \in RemoveSteps :
              LET T == call'.plan[k].TargetNode
              IN  IF call'.heaps[k][T].depth >= call'.CIDR.Mask
                  THEN ClearedInPlace(k, T)
                  ELSE DetachedBranch(k, T, call'.CIDR.Mask + 1)
      ]_vars

\* C27 amended: Remove Existing CIDR clears the target's entry in place
\* when the target's depth is less than or equal to the inserted CIDR's
\* depth, and otherwise detaches the target's branch with limit depth
\* inserted depth + 1.
C27_RemoveClearsShallowerTarget ==
    [][ InsertStep =>
          \A k \in RemoveSteps :
              LET T == call'.plan[k].TargetNode
              IN  IF call'.heaps[k][T].depth <= call'.CIDR.Mask
                  THEN ClearedInPlace(k, T)
                  ELSE DetachedBranch(k, T, call'.CIDR.Mask + 1)
      ]_vars

\* a Super insert removed an entry two levels below it by detaching its
\* branch
C27_Witness ==
    /\ panicked = NoPanic
    /\ result.ConflictType = "SuperCIDR"
    /\ \E k \in 1..Len(call.heaps) :
          /\ call.plan[k].Action = "Remove Existing CIDR"
          /\ call.heaps[k][call.plan[k].TargetNode].depth = call.CIDR.Mask + 2
          /\ \A bn \in Subtree(nodes, RootOf(call.CIDR), <<>>) :
                bn[2] # call.plan[k].TargetNode

\* the split steps of the call that ran
SplitSteps ==
    { k \in StepsRun :
        call'.plan[k].Action \in {"Split Existing CIDR", "Split Inserted CIDR"} }

\* the node split-around starts from in step k: the new CIDR's node for
\* Split Existing CIDR, the surviving entry for Split Inserted CIDR
Boundary(k) ==
    IF call'.plan[k].Action = "Split Existing CIDR" THEN call'.newCidrNode
    ELSE call'.plan[k].TargetNode

\* the depth split-around walks up to: that of the conflict node
OuterDepth(k) == call'.heaps[k][call'.lastNode].depth

\* the sibling slots between the boundary and the outer boundary that held
\* no node when step k began
EmptySlots(k) ==
    { sl \in SlotsAround(Path(call'.heaps[k], Boundary(k)), OuterDepth(k)) :
        \A bn \in Subtree(call'.heaps[k], NewRoot, <<>>) : bn[1] # sl }

\* the paths of the entries step k added to the trie
PathsAdded(k) ==
    { e[1] : e \in Entries(HeapAfter(k), NewRoot) }
        \ { e[1] : e \in Entries(call'.heaps[k], NewRoot) }

\* C28 as stated: every call of split-around from a boundary node up to an
\* outer boundary creates exactly depth(boundary) - depth(outer boundary)
\* new entry nodes, under Split Existing CIDR and under Split Inserted CIDR.
C28_SplitCreatesDepthDifference ==
    [][ InsertStep =>
          \A k \in SplitSteps :
              /\ Len(result'.actions[k].AddedCidrs)
                    = call'.heaps[k][Boundary(k)].depth - OuterDepth(k)
              /\ Cardinality(PathsAdded(k))
                    = call'.heaps[k][Boundary(k)].depth - OuterDepth(k)
      ]_vars

\* C28 amended: every call of split-around from a boundary node up to an
\* outer boundary creates one new entry node at each sibling slot on the way
\* that is empty, so at most depth(boundary) - depth(outer boundary) of
\* them, and exactly that many under Split Existing CIDR.
C28_SplitFillsEmptySiblingSlots ==
    [][ InsertStep =>
          \A k \in SplitSteps :
              LET added == result'.actions[k].AddedCidrs
                  span == call'.heaps[k][Boundary(k)].depth - OuterDepth(k)
              IN  /\ k <= Len(result'.actions)
                  /\ Len(added) = Cardinality(EmptySlots(k))
                  /\ PathsAdded(k) = EmptySlots(k)
                  /\ Len(added) <= span
                  /\ call'.plan[k].Action = "Split Existing CIDR" =>
                        Len(added) = span
      ]_vars

\* a Super insert was split around a surviving entry whose sibling slot
\* was taken: the step added fewer nodes than the depths are apart
C28_Witness ==
    /\ panicked = NoPanic
    /\ result.ConflictType = "SuperCIDR"
    /\ \E k \in 1..Len(call.heaps) :
          /\ call.plan[k].Action = "Split Inserted CIDR"
          /\ Len(result.actions[k].AddedCidrs)
                < call.heaps[k][call.plan[k].TargetNode].depth
                    - call.heaps[k][call.lastNode].depth

\* the nodes step k allocated
NodesOf(k) == (Len(call'.heaps[k]) + 1)..Len(HeapAfter(k))

\* the entry that step k splits, as the call found it (the existing
\* supernet) or made it (the new CIDR)
SplitSource(k) ==
    IF call'.plan[k].Action = "Split Existing CIDR"
    THEN metas[nodes[call'.plan[k].TargetNode].metadata]
    ELSE metas'[call'.metadata]

\* C29: after every insert the prefix of every entry leaf is equal to or an
\* extension of the prefix of its origin CIDR, and every fragment a split
\* creates carries the origin CIDR, priority vector and attributes of the
\* entry that was split: the existing supernet under Split Existing CIDR,
\* the new CIDR under Split Inserted CIDR.
C29_FragmentsKeepOrigin ==
    [][ InsertStep =>
          /\ \A root \in Roots :
                \A e \in Entries(nodes', root) :
                    /\ IsLeaf(nodes', e[2])
                    /\ IsPrefix(
                          CidrToBits(metas'[nodes'[e[2]].metadata].originCIDR).path,
                          e[1])
          /\ \A k \in SplitSteps :
                \A n \in NodesOf(k) :
                    /\ nodes'[n].metadata # NULL
                    /\ CarriesCopyOf(n, SplitSource(k))
      ]_vars

\* a Super insert left fragments of itself around a surviving entry
C29_Witness ==
    /\ panicked = NoPanic
    /\ Len(history) = 3
    /\ \E k \in 1..Len(result.actions) :
          /\ result.actions[k].Action = "Split Inserted CIDR"
          /\ Len(result.actions[k].AddedCidrs) >= 1
    /\ \E e \in Entries(nodes, RootOf(call.CIDR)) :
          /\ metas[nodes[e[2]].metadata].originCIDR = call.CIDR
          /\ Len(e[1]) > call.CIDR.Mask

-----------------------------------------------------------------------------
(* DetachBranch called on its own: a trie built by inserts, then one call  *)
(* n.DetachBranch(limit) on any node n of it.                              *)

\* the limit depths handed to DetachBranch
DetachLimits == 0 .. MaxMaskV4 + 1

\* the nodes of the two tries, the roots among them
Attached == UNION { { bn[2] : bn \in Subtree(nodes, root, <<>>) } : root \in Roots }

DetachInsert(ipnet, literal) ==
    /\ Len(history) < MaxDetachInserts
    /\ ret = NoReturn
    /\ InsertCall(ipnet, literal)

DetachInsertV4 ==
    \E ipnet \in V4Cidrs, priority \in UserPriorities :
        DetachInsert(ipnet, UserMetadata(priority, Len(history) + 1))

DetachInsertV6 ==
    \E ipnet \in V6Cidrs, priority \in UserPriorities :
        DetachInsert(ipnet, UserMetadata(priority, Len(history) + 1))

\* one call t.DetachBranch(limit)
DetachBranchOn(t, limit) ==
    /\ LET returned(d) ==
               /\ nodes' = d.h
               /\ panicked' = d.panic
               /\ ret' = [op |-> "DetachBranch", args |-> <<t, limit>>,
                          value |-> d.node]
       IN  returned(DetachBranch(nodes, t, limit))
    /\ UNCHANGED <<metas, super, result, call, history, logged>>

DetachBranchCall ==
    /\ panicked = NoPanic
    /\ ret = NoReturn
    /\ \E t \in Attached, limit \in DetachLimits : DetachBranchOn(t, limit)

DetachNext == DetachInsertV4 \/ DetachInsertV6 \/ DetachBranchCall

DetachSpec == Init /\ [][DetachNext]_vars

\* the step is a call n.DetachBranch(limit)
DetachStep == ret = NoReturn /\ ret'.op = "DetachBranch"

\* x ends the walk upward: it has a sibling, or its depth is at most limit,
\* or it is a child of the root
EndsWalk(h, x, limit) ==
    \/ Sibling(h, x) # NULL
    \/ h[x].depth <= limit
    \/ h[h[x].parent].parent = NULL

\* the nodes from n upward to the child of the root, n among them
RECURSIVE Upward(_, _)
Upward(h, n) ==
    IF h[n].parent = NULL THEN {} ELSE {n} \cup Upward(h, h[n].parent)

\* the first node from n upward that ends the walk
FirstEnding(h, n, limit) ==
    CHOOSE x \in Upward(h, n) :
        /\ EndsWalk(h, x, limit)
        /\ \A y \in Upward(h, n) :
               EndsWalk(h, y, limit) => h[y].depth <= h[x].depth

\* C30: DetachBranch(limit) on a non-root node n takes out of its parent's
\* slot the first node from n upward that has a sibling, or has depth at
\* most limit, or is a child of the root, and returns that node's parent; the
\* detached node is never the root, and every other slot and every entry of
\* the heap is as it was.
C30_DetachBranchDetachesFirstEnding ==
    [][ (DetachStep /\ nodes[ret'.args[1]].parent # NULL) =>
        LET n == ret'.args[1]
            limit == ret'.args[2]
            D == FirstEnding(nodes, n, limit)
            P == nodes[D].parent
        IN  /\ panicked' = NoPanic
            /\ P # NULL
            /\ D \notin Roots
            /\ ret'.value = P
            /\ nodes'[P].children[Pos(nodes, D) + 1] = NULL
            /\ nodes[P].children[Pos(nodes, D) + 1] = D
            /\ \A x \in 1..Len(nodes) :
                   /\ nodes'[x].metadata = nodes[x].metadata
                   /\ nodes'[x].parent = nodes[x].parent
                   /\ \A slot \in 1..2 :
                          (x # P \/ slot # Pos(nodes, D) + 1) =>
                              nodes'[x].children[slot] = nodes[x].children[slot]
            /\ Len(nodes') = Len(nodes) /\ metas' = metas
      ]_vars

\* a DetachBranch that walked up a spine of only children and stopped at the
\* limit depth, below the child of the root, has returned
C30_Witness ==
    /\ ret.op = "DetachBranch"
    /\ panicked = NoPanic
    /\ \E D \in Upward(nodes, ret.args[1]) \ {ret.args[1]} :
           /\ nodes[D].parent = ret.value
           /\ nodes[ret.value].children[Pos(nodes, D) + 1] = NULL
           /\ Sibling(nodes, D) = NULL
           /\ nodes[D].depth = ret.args[2]
           /\ nodes[ret.value].parent # NULL
-----------------------------------------------------------------------------
(* The trie right after a Remove Existing CIDR step.                       *)

\* T holds the only entry on a spine of h: an entry leaf without a sibling
OnlyEntryOnSpine(h, T) ==
    /\ h[T].metadata # NULL
    /\ IsLeaf(h, T)
    /\ ~IsBranch(h, T)

\* the leaves without an entry of the trie below root
BareLeaves(h, root) ==
    { bn[2] : bn \in { x \in Subtree(h, root, <<>>) :
                          IsLeaf(h, x[2]) /\ h[x[2]].metadata = NULL } }

\* the Remove Existing CIDR steps of the call that took the only entry off a
\* spine
SpineRemoveSteps ==
    { k \in RemoveSteps :
        OnlyEntryOnSpine(call'.heaps[k], call'.plan[k].TargetNode) }

\* C31 as stated: immediately after a Remove Existing CIDR action removes
\* the only entry on a spine, the trie contains no leaf without an entry.
C31_NoBareLeafRightAfterRemove ==
    [][ InsertStep =>
          \A k \in SpineRemoveSteps : BareLeaves(HeapAfter(k), NewRoot) = {}
      ]_vars

\* C31 amended: immediately after a Remove Existing CIDR action removes the
\* only entry on a spine, the trie contains no leaf without an entry other
\* than the node at the inserted CIDR's path, and that node is such a leaf
\* only when the next step of the plan is Insert New CIDR.
C31_OnlyConflictNodeBareAfterRemove ==
    [][ InsertStep =>
          \A k \in SpineRemoveSteps :
              /\ BareLeaves(HeapAfter(k), NewRoot) \subseteq {call'.lastNode}
              /\ BareLeaves(HeapAfter(k), NewRoot) # {} =>
                    /\ k < Len(call'.plan)
                    /\ call'.plan[k + 1].Action = "Insert New CIDR"
                    /\ Path(HeapAfter(k), call'.lastNode) = NewBits
      ]_vars

\* a Super insert has detached the spine of an entry two levels below it,
\* the last entry under its path, and then attached its own node
C31_Witness ==
    /\ panicked = NoPanic
    /\ result.ConflictType = "SuperCIDR"
    /\ Len(call.plan) >= 2
    /\ call.plan[Len(call.plan)].Action = "Insert New CIDR"
    /\ \E k \in 1..Len(call.plan) - 1 :
           /\ call.plan[k].Action = "Remove Existing CIDR"
           /\ OnlyEntryOnSpine(call.heaps[k], call.plan[k].TargetNode)
           /\ call.heaps[k][call.plan[k].TargetNode].depth >= call.CIDR.Mask + 2
           /\ IsLeaf(call.heaps[k + 1], call.lastNode)
-----------------------------------------------------------------------------
(* The entry InsertCidr builds from the caller's metadata.                 *)

\* the priority vector the caller handed to the call
GivenPriority == history'[Len(history')].Priority

\* C32: InsertCidr appends exactly one component to the entry's priority
\* vector, and the appended value equals the prefix length of the inserted
\* CIDR.
C32_AppendsPrefixLength ==
    [][ Inserted =>
          metas'[call'.metadata].Priority
              = Append(GivenPriority, call'.CIDR.Mask)
      ]_vars
-----------------------------------------------------------------------------
(* A caller that hands the Metadata object of its last call over again.    *)

\* one call super.InsertCidr(ipnet, m) with m the *Metadata the caller passed
\* to its previous call
ReinsertCall(ipnet) ==
    /\ panicked = NoPanic
    /\ call # NoCall
    /\ LET n == Len(history) + 1
           md == call.metadata
           returned(r) ==
               /\ nodes' = r.h
               /\ metas' = r.ms
               /\ result' = r.result
               /\ panicked' = r.panic
               /\ call' = [CIDR |-> ipnet, metadata |-> md,
                            isV6 |-> metas[md].IsV6,
                            newCidrNode |-> r.newCidrNode,
                            lastNode |-> r.lastNode, plan |-> r.plan,
                            heaps |-> r.heaps]
               /\ history' = Append(history,
                      [CIDR |-> ipnet, Priority |-> metas[md].Priority, id |-> n])
               /\ logged' = logged \o r.logs
       IN  returned(InsertCidr(nodes, metas, super, ipnet, md))
    /\ ret' = NoReturn
    /\ UNCHANGED super

ReuseInsert(ipnet, literal) ==
    /\ Len(history) < MaxReuseInserts
    /\ InsertCall(ipnet, literal)

ReuseInsertV4 ==
    \E ipnet \in V4Cidrs, priority \in UserPriorities :
        ReuseInsert(ipnet, UserMetadata(priority, Len(history) + 1))

ReuseInsertV6 ==
    \E ipnet \in V6Cidrs, priority \in UserPriorities :
        ReuseInsert(ipnet, UserMetadata(priority, Len(history) + 1))

InsertSameObject ==
    /\ Len(history) < MaxReuseInserts
    /\ \E ipnet \in V4Cidrs \cup V6Cidrs : ReinsertCall(ipnet)

ReuseNext == ReuseInsertV4 \/ ReuseInsertV6 \/ InsertSameObject

ReuseSpec == Init /\ [][ReuseNext]_vars

\* the entry data of the Metadata object m in the heap ms
EntryData(ms, m) ==
    [originCIDR |-> ms[m].originCIDR, Priority |-> ms[m].Priority,
     Attributes |-> ms[m].Attributes]

\* C33: once an entry has been placed in the store, its origin CIDR,
\* priority vector and attributes are never changed by a later InsertCidr
\* call, whatever CIDR and whatever metadata object (one passed to an earlier
\* insert included) that call is given.
C33_PlacedEntriesImmutable ==
    [][ InsertStep =>
          \A root \in Roots : \A e \in Entries(nodes, root) :
              EntryData(metas', nodes[e[2]].metadata)
                  = EntryData(metas, nodes[e[2]].metadata)
      ]_vars
-----------------------------------------------------------------------------
(* The report of an insert against the change of the store.                *)

\* the path of the node a report holds a copy of
SnapshotPath(h, copy) ==
    IF copy.parent = NULL THEN <<>>
    ELSE Append(Path(h, copy.parent), IF copy.pos THEN 1 ELSE 0)

\* the entries a list of node copies names: path and Metadata object
Listed(h, copies) ==
    { <<SnapshotPath(h, copies[j]), copies[j].metadata>> : j \in 1..Len(copies) }

\* the entries stored in the trie below root: path and Metadata object
Stored(h, root) == { <<e[1], h[e[2]].metadata>> : e \in Entries(h, root) }

\* the set E after the outcomes i.. of a report took out what they list as
\* removed and put in what they list as added, one outcome after the other
RECURSIVE ApplyOutcomes(_, _, _, _)
ApplyOutcomes(E, h, actions, i) ==
    IF i > Len(actions) THEN E
    ELSE ApplyOutcomes((E \ Listed(h, actions[i].RemoveCidrs))
                           \cup Listed(h, actions[i].AddedCidrs),
                       h, actions, i + 1)

\* C34: the set of entries in the trie after an insert is the set before it
\* with the entries the report's outcomes list as removed taken out and the
\* entries they list as added put in, in outcome order; the other trie keeps
\* its entries.
C34_ReportAccountsForEveryEntry ==
    [][ Inserted =>
          /\ Stored(nodes', NewRoot)
                 = ApplyOutcomes(Stored(nodes, NewRoot), nodes', result'.actions, 1)
          /\ \A root \in Roots \ {NewRoot} : Stored(nodes', root) = Stored(nodes, root)
      ]_vars

\* a report that lists one entry as removed and three as added: a CIDR won
\* two levels inside a stored one
C34_Witness ==
    /\ panicked = NoPanic
    /\ \E i, j \in 1..Len(result.actions) :
           /\ Len(result.actions[i].RemoveCidrs) = 1
           /\ Len(result.actions[j].AddedCidrs) = 2
           /\ result.actions[j].Action = "Split Existing CIDR"
           /\ Stored(nodes, RootOf(result.CIDR))
                  = ApplyOutcomes({}, nodes, result.actions, 1)
-----------------------------------------------------------------------------
(* Two CIDRs inserted into one store in both orders.                       *)

\* the entries of both tries: trie, path, origin, priority and attributes
FinalEntries(h, ms, sup) ==
    UNION { { <<root, e[1], EntryData(ms, h[e[2]].metadata)>> :
                e \in Entries(h, root) } :
            root \in {sup.ipv4Cidrs, sup.ipv6Cidrs} }

\* super.InsertCidr(c1, &l1) followed by super.InsertCidr(c2, &l2): the
\* entries stored afterwards, and the panic if one of the calls raised one
InsertTwo(h, ms, sup, c1, l1, c2, l2) ==
    LET done(r) == [entries |-> FinalEntries(r.h, r.ms, sup), panic |-> r.panic]
        second(r1) ==
            IF r1.panic # NoPanic THEN done(r1)
            ELSE done(InsertCidr(r1.h, Append(r1.ms, l2), sup, c2, Len(r1.ms) + 1))
    IN  second(InsertCidr(h, Append(ms, l1), sup, c1, Len(ms) + 1))

\* the CIDRs with the entries handed over with them
PairInputs ==
    { [CIDR |-> ipnet, Priority |-> priority] :
        ipnet \in V4Cidrs \cup V6Cidrs, priority \in UserPriorities }

PairInsert(ipnet, literal) ==
    /\ Len(history) < MaxPairInserts
    /\ ret = NoReturn
    /\ InsertCall(ipnet, literal)

PairInsertV4 ==
    \E ipnet \in V4Cidrs, priority \in UserPriorities :
        PairInsert(ipnet, UserMetadata(priority, Len(history) + 1))

PairInsertV6 ==
    \E ipnet \in V6Cidrs, priority \in UserPriorities :
        PairInsert(ipnet, UserMetadata(priority, Len(history) + 1))

\* a and b inserted into the store as it stands, a first and b first
InsertPair(a, b) ==
    /\ LET n == Len(history)
           la == UserMetadata(a.Priority, n + 1)
           lb == UserMetadata(b.Priority, n + 2)
       IN  ret' = [op |-> "InsertPair", args |-> <<a, b>>,
                   value |-> <<InsertTwo(nodes, metas, super, a.CIDR, la, b.CIDR, lb),
                               InsertTwo(nodes, metas, super, b.CIDR, lb, a.CIDR, la)>>]
    /\ UNCHANGED <<nodes, metas, super, result, panicked, call, history, logged>>

InsertPairCall ==
    /\ panicked = NoPanic
    /\ ret = NoReturn
    /\ \E a, b \in PairInputs : InsertPair(a, b)

PairNext == PairInsertV4 \/ PairInsertV6 \/ InsertPairCall

PairSpec == Init /\ [][PairNext]_vars

\* the (user priority vector, prefix length) pair of an input
PriorityKey(x) == <<x.Priority, x.CIDR.Mask>>

\* C35: two CIDRs whose (user priority vector, prefix length) pairs differ,
\* with priority vectors of the store's common length, leave the same set of
\* entries (CIDR, origin, priority, attributes) whichever is inserted first
\* into a reachable store.
C35_InsertOrderIrrelevant ==
    (/\ ret.op = "InsertPair"
     /\ PriorityKey(ret.args[1]) # PriorityKey(ret.args[2]))
        => /\ ret.value[1].panic = NoPanic
           /\ ret.value[2].panic = NoPanic
           /\ ret.value[1].entries = ret.value[2].entries

\* a /1 and a /3 inside it were inserted, in both orders, into a store
\* holding a /2 between them that the /3 beats and the /1 loses to
C35_Witness ==
    /\ ret.op = "InsertPair"
    /\ Len(history) = 1
    /\ LET a == ret.args[1]
           b == ret.args[2]
           x == history[1]
           bits(c) == CidrToBits(c).path
       IN  /\ a.CIDR.Mask = 1 /\ x.CIDR.Mask = 2 /\ b.CIDR.Mask = 3
           /\ IsPrefix(bits(a.CIDR), bits(x.CIDR))
           /\ IsPrefix(bits(x.CIDR), bits(b.CIDR))
           /\ a.Priority = <<0>> /\ x.Priority = <<0>> /\ b.Priority = <<1>>
           /\ Cardinality(ret.value[1].entries) = 3
           /\ ret.value[1].entries = ret.value[2].entries
-----------------------------------------------------------------------------
(* The operations of pkg/trie called on their own, on every node         *)
(* constructed so far (the caller has a pointer to each), with any such    *)
(* node as child, and inserts between.                                     *)

\* the child positions ZERO and ONE
ChildPositions == {0, 1}

\* t.AttachChild(child, at) for a node child of the heap
AttachChildNode(h, t, child, at) ==
    IF h[t].children[at + 1] # NULL THEN h ELSE ReplaceChild(h, t, child, at)

\* one call trie.NewTrieWithMetadata(nil): a node attached nowhere
NewTrieCall ==
    /\ panicked = NoPanic
    /\ Len(nodes) < MaxTrieNodes
    /\ nodes' = Append(nodes, NewTrieWithMetadata(NULL))
    /\ UNCHANGED <<metas, super, result, panicked, call, history, ret, logged>>

\* one call t.AttachChild(child, at)
TrieAttachChild(t, child, at) ==
    /\ nodes' = AttachChildNode(nodes, t, child, at)
    /\ UNCHANGED <<metas, super, result, panicked, call, history, ret, logged>>

\* one call t.ReplaceChild(child, at)
TrieReplaceChild(t, child, at) ==
    /\ nodes' = ReplaceChild(nodes, t, child, at)
    /\ UNCHANGED <<metas, super, result, panicked, call, history, ret, logged>>

\* one call t.AttachSibling(sibling); on a node without parent t.parent is
\* nil and AttachChild reads the children of its nil receiver
TrieAttachSibling(t, sibling) ==
    /\ IF IsRoot(nodes, t)
       THEN nodes' = nodes /\ panicked' = "nil pointer dereference"
       ELSE /\ nodes' = AttachChildNode(nodes, nodes[t].parent, sibling,
                                        Xor1(Pos(nodes, t)))
            /\ panicked' = NoPanic
    /\ UNCHANGED <<metas, super, result, call, history, ret, logged>>

\* one call t.UpdateMetadata(md), md nil or an object of the store
TrieUpdateMetadata(t, md) ==
    /\ nodes' = UpdateMetadata(nodes, t, md)
    /\ UNCHANGED <<metas, super, result, panicked, call, history, ret, logged>>

\* one call t.Detach()
TrieDetach(t) ==
    /\ IF IsRoot(nodes, t)
       THEN nodes' = nodes /\ panicked' = "Detach: You can not Detach the root"
       ELSE nodes' = Detach(nodes, t) /\ panicked' = NoPanic
    /\ UNCHANGED <<metas, super, result, call, history, ret, logged>>

\* one call t.DetachBranch(limit); a call that never returns leaves no
\* state behind it
TrieDetachBranch(t, limit) ==
    /\ LET returned(d) ==
               /\ d.panic # NeverReturns
               /\ nodes' = d.h
               /\ panicked' = d.panic
       IN  returned(DetachBranch(nodes, t, limit))
    /\ UNCHANGED <<metas, super, result, call, history, ret, logged>>

\* the depth field grows without limit where nodes are attached in a ring:
\* the receiver's depth is below MaxTrieDepth
AttachChildCall ==
    /\ panicked = NoPanic
    /\ Len(nodes) <= MaxTrieNodes
    /\ \E t \in 1..Len(nodes), child \in 1..Len(nodes), at \in ChildPositions :
           /\ nodes[t].depth < MaxTrieDepth
           /\ TrieAttachChild(t, child, at)

ReplaceChildCall ==
    /\ panicked = NoPanic
    /\ Len(nodes) <= MaxTrieNodes
    /\ \E t \in 1..Len(nodes), child \in 1..Len(nodes), at \in ChildPositions :
           /\ nodes[t].depth < MaxTrieDepth
           /\ TrieReplaceChild(t, child, at)

AttachSiblingCall ==
    /\ panicked = NoPanic
    /\ Len(nodes) <= MaxTrieNodes
    /\ \E t \in 1..Len(nodes), sibling \in 1..Len(nodes) :
           /\ IF IsRoot(nodes, t) THEN TRUE
              ELSE nodes[nodes[t].parent].depth < MaxTrieDepth
           /\ TrieAttachSibling(t, sibling)

DetachCall ==
    /\ panicked = NoPanic
    /\ Len(nodes) <= MaxTrieNodes
    /\ \E t \in 1..Len(nodes) : TrieDetach(t)

TrieDetachBranchCall ==
    /\ panicked = NoPanic
    /\ Len(nodes) <= MaxTrieNodes
    /\ \E t \in 1..Len(nodes), limit \in DetachLimits : TrieDetachBranch(t, limit)

UpdateMetadataCall ==
    /\ panicked = NoPanic
    /\ Len(nodes) <= MaxTrieNodes
    /\ \E t \in 1..Len(nodes), md \in {NULL} \cup (1..Len(metas)) : TrieUpdateMetadata(t, md)

\* one call super.InsertCidr(ipnet, &literal) on the tries as the trie
\* operations have left them
TrieInsert(ipnet, literal) ==
    /\ Len(history) < MaxTrieInserts
    /\ InsertCall(ipnet, literal)

TrieInsertV4 ==
    \E ipnet \in V4Cidrs, priority \in UserPriorities :
        TrieInsert(ipnet, UserMetadata(priority, Len(history) + 1))

TrieInsertV6 ==
    \E ipnet \in V6Cidrs, priority \in UserPriorities :
        TrieInsert(ipnet, UserMetadata(priority, Len(history) + 1))

TrieNext ==
    \/ NewTrieCall
    \/ AttachSiblingCall
    \/ AttachChildCall
    \/ ReplaceChildCall
    \/ DetachCall
    \/ TrieDetachBranchCall
    \/ UpdateMetadataCall
    \/ TrieInsertV4
    \/ TrieInsertV6

TrieSpec == Init /\ [][TrieNext]_vars

\* the node the child slots named by bits[i..] lead to from t, NULL where a
\* slot on the way is empty
RECURSIVE Follow(_, _, _, _)
Follow(h, t, bits, i) ==
    IF i > Len(bits) \/ t = NULL THEN t
    ELSE Follow(h, h[t].children[bits[i] + 1], bits, i + 1)

\* C36: in every state reached by trie operations and inserts, every
\* non-root node (IsRoot is false of it) held in a child slot of a node
\* reachable from a trie root records its holder's depth plus one as depth,
\* the index of the slot as position bit and the holder as parent, and
\* Path() returns a bit sequence of length depth that leads from the root
\* to it.
C36_NodesRecordTheirPlace ==
    panicked = NoPanic =>
        \A root \in Roots : \A holder \in Below(nodes, {root}) :
            \A slot \in ChildPositions :
                LET n == nodes[holder].children[slot + 1]
                IN  (n # NULL /\ ~IsRoot(nodes, n)) =>
                        /\ nodes[n].parent = holder
                        /\ nodes[n].depth = nodes[holder].depth + 1
                        /\ Pos(nodes, n) = slot
                        /\ ForEachStepUpEnds(nodes, n, "nil", 0, Len(nodes))
                        /\ Len(Path(nodes, n)) = nodes[n].depth
                        /\ Follow(nodes, root, Path(nodes, n), 1) = n
-----------------------------------------------------------------------------
(* Reads following one another between inserts.                            *)

ReadInsert(ipnet, literal) ==
    /\ Len(history) < MaxReadInserts
    /\ InsertCall(ipnet, literal)

ReadInsertV4 ==
    \E ipnet \in V4Cidrs, priority \in UserPriorities :
        ReadInsert(ipnet, UserMetadata(priority, Len(history) + 1))

ReadInsertV6 ==
    \E ipnet \in V6Cidrs, priority \in UserPriorities :
        ReadInsert(ipnet, UserMetadata(priority, Len(history) + 1))

ReadInsertFullWidth ==
    \E ipnet \in FullWidthCidrs, priority \in UserPriorities :
        ReadInsert(ipnet, UserMetadata(priority, Len(history) + 1))

\* a LookupIP call, after an insert or after another read
LookupAgain ==
    /\ panicked = NoPanic
    /\ \E ip \in LookupIPs : LookupIPCall(ip)

\* an AllCIDRS call, after an insert or after another read
EnumerateAgain ==
    /\ panicked = NoPanic
    /\ \E forV6 \in BOOLEAN : AllCIDRSCall(forV6)

ReadNext ==
    \/ ReadInsertV4
    \/ ReadInsertV6
    \/ ReadInsertFullWidth
    \/ LookupAgain
    \/ EnumerateAgain

ReadSpec == Init /\ [][ReadNext]_vars

\* the step is a LookupIP or AllCIDRS call
ReadStep == history' = history /\ ret' # ret

\* C37: a LookupIP or AllCIDRS call, the first after an insert or one after
\* other reads, leaves every node and every entry of both tries as it was.
C37_ReadsLeaveStore ==
    [][ ReadStep =>
          /\ ret'.op \in {"LookupIP", "AllCIDRS"}
          /\ nodes' = nodes
          /\ metas' = metas
          /\ super' = super
      ]_vars

\* a lookup has found an entry in a store that holds two IPv4 entries
C37_Witness ==
    /\ panicked = NoPanic
    /\ ret.op = "LookupIP"
    /\ ret.value # {}
    /\ Len(history) = 2
    /\ Cardinality(Entries(nodes, super.ipv4Cidrs)) >= 2
-----------------------------------------------------------------------------
(* cmd resolve: one run of ResolveCmd.Run. The records are inserted, the   *)
(* writer goes over the stored entries, and the counters are printed.      *)

\* the default of --cidr-key
CidrKey == "cidr"

\* the values --output-format takes
OutputFormats == {"json", "csv", "tsv"}

\* the values of --drop-keys of the runs: none, the id column, the CIDR column
DropKeysOptions == {{}, {"id"}, {CidrKey}}

\* the &Metadata{...} parseCIDR builds for the n-th record: Attributes is
\* the record itself, here the CIDR column and an id column; the text of
\* the CIDR column is stood for by the CIDR net.ParseCIDR reads from it
RunRecord(ipnet, priority, n) ==
    [originCIDR |-> NULL, IsV6 |-> To4IsNil(ipnet.IP), Priority |-> priority,
     Attributes |-> {<<CidrKey, ipnet>>, <<"id", n>>}]

\* a zero Stats value, the clock readings left out
NoStats == [Input |-> 0, Output |-> 0, Conflicted |-> 0]

\* the callback parseAndInsertCidrs hands to the parser, on the report of
\* the InsertCidr call it makes for one record
CountRecord(stats, report) ==
    LET counted == IF report.ConflictType = "NoConflict"
                   THEN [stats EXCEPT !.Conflicted = @ + 1]
                   ELSE stats
    IN  [counted EXCEPT !.Input = @ + 1]

\* cmd.Stats after the records whose reports are reports[i..] were inserted
RECURSIVE parseAndInsertCidrs(_, _, _)
parseAndInsertCidrs(stats, reports, i) ==
    IF i > Len(reports) THEN stats
    ELSE parseAndInsertCidrs(CountRecord(stats, reports[i].ir), reports, i + 1)

\* cmd.Stats when Run has handed every record so far to parseAndInsertCidrs
InsertStats == parseAndInsertCidrs(NoStats, logged, 1)

\* NodeToCidr(t): the text of the CIDR of t's path, stood for by the CIDR
NodeToCidr(h, ms, t) ==
    IF h[t].metadata = NULL
    THEN [cidr |-> NULL,
          panic |-> "[Bug] NodeToCidr: Cannot convert a trie path node to CIDR, metadata is missing"]
    ELSE [cidr |-> BitsToCidr(Path(h, t), ms[h[t].metadata].IsV6),
          panic |-> NoPanic]

\* the Attributes maps of the Metadata objects ms. A Go map is shared by
\* every Metadata it was copied into; each record of a run has an id of its
\* own, so two objects hold one map exactly when they held equal Attributes
\* before the writer started, and that value names the map
AttributeMaps(ms) == [a \in { ms[m].Attributes : m \in 1..Len(ms) } |-> a]

\* updateAttributes(cidr, cidrCol, dropKeys) on the map attributes of the
\* entry whose CIDR text is cidr: the map it leaves
updateAttributes(attributes, cidr, cidrCol, dropKeys) ==
    LET set == { kv \in attributes : kv[1] # cidrCol } \cup {<<cidrCol, cidr>>}
    IN  { kv \in set : kv[1] \notin dropKeys }

\* what updateAttributes panics with on a leaf without metadata: the nil
\* Metadata is read on the left of the assignment and inside NodeToCidr on
\* its right, in an order the language leaves open
NilMetadataPanic(h, ms, t, leftFirst) ==
    IF leftFirst THEN "nil pointer dereference" ELSE NodeToCidr(h, ms, t).panic

\* the loop of JsonWriter.Write over cidrs[i..]: w holds the maps, the
\* objects encoded into the file and Stats.Output
RECURSIVE JsonWriteLoop(_, _, _, _, _, _, _, _)
JsonWriteLoop(h, ms, w, cidrs, i, cidrCol, dropKeys, leftFirst) ==
    IF i > Len(cidrs) THEN w
    ELSE IF h[cidrs[i]].metadata = NULL
    THEN [w EXCEPT !.panic = NilMetadataPanic(h, ms, cidrs[i], leftFirst)]
    ELSE LET map == ms[h[cidrs[i]].metadata].Attributes
             updated == updateAttributes(w.maps[map],
                                         NodeToCidr(h, ms, cidrs[i]).cidr,
                                         cidrCol, dropKeys)
         IN  JsonWriteLoop(h, ms,
                 [w EXCEPT !.maps[map] = updated,
                           !.records = Append(@, updated),
                           !.Output = @ + 1],
                 cidrs, i + 1, cidrCol, dropKeys, leftFirst)

\* JsonWriter.Write(super, ".", cidrCol, dropKeys) with the fields
\* splitIpVersions and IPv6, on the maps and the Stats.Output of w; the file
\* system does what it is asked
JsonWriterWrite(h, ms, sup, w, splitIpVersions, IPv6, cidrCol, dropKeys, leftFirst) ==
    LET ipvCidrs == IF splitIpVersions THEN AllCIDRS(h, sup, IPv6)
                    ELSE AllCIDRS(h, sup, FALSE) \o AllCIDRS(h, sup, TRUE)
    IN  JsonWriteLoop(h, ms,
            [w EXCEPT !.file =
                [stem |-> IF ~splitIpVersions THEN "resolved"
                          ELSE IF IPv6 THEN "resolved_v6"
                          ELSE "resolved_v4",
                 ext |-> ".json"]],
            ipvCidrs, 1, cidrCol, dropKeys, leftFirst)

\* the loop of CsvWriter.Write over cidrs[i..]: a record has one field per
\* header, the empty text for a key the map lacks
RECURSIVE CsvWriteLoop(_, _, _, _, _, _, _, _)
CsvWriteLoop(h, ms, w, cidrs, i, cidrCol, dropKeys, leftFirst) ==
    IF i > Len(cidrs) THEN w
    ELSE IF h[cidrs[i]].metadata = NULL
    THEN [w EXCEPT !.panic = NilMetadataPanic(h, ms, cidrs[i], leftFirst)]
    ELSE LET map == ms[h[cidrs[i]].metadata].Attributes
             updated == updateAttributes(w.maps[map],
                                         NodeToCidr(h, ms, cidrs[i]).cidr,
                                         cidrCol, dropKeys)
             record == [header \in w.headers |->
                          IF \E kv \in updated : kv[1] = header
                          THEN (CHOOSE kv \in updated : kv[1] = header)[2]
                          ELSE ""]
         IN  CsvWriteLoop(h, ms,
                 [w EXCEPT !.maps[map] = updated,
                           !.records = Append(@, record),
                           !.Output = @ + 1],
                 cidrs, i + 1, cidrCol, dropKeys, leftFirst)

\* CsvWriter.Write(super, ".", cidrCol, dropKeys) with the fields isTSV,
\* splitIpVersions and IPv6: the headers are the keys of the first entry of
\* the first list, read before any entry is updated
CsvWriterWrite(h, ms, sup, w, isTSV, splitIpVersions, IPv6, cidrCol, dropKeys, leftFirst) ==
    LET first == IF splitIpVersions THEN AllCIDRS(h, sup, IPv6)
                 ELSE AllCIDRS(h, sup, FALSE)
        ipvCidrs == IF splitIpVersions THEN first
                    ELSE first \o AllCIDRS(h, sup, TRUE)
        named == [w EXCEPT !.file =
                     [stem |-> IF ~splitIpVersions THEN "resolved"
                               ELSE IF IPv6 THEN "resolved_v6"
                               ELSE "resolved_v4",
                      ext |-> IF isTSV THEN ".tsv" ELSE ".csv"]]
    IN  IF first = <<>>
        THEN [named EXCEPT !.panic = "index out of range"]
        ELSE IF h[first[1]].metadata = NULL
        THEN [named EXCEPT !.panic = "nil pointer dereference"]
        ELSE CsvWriteLoop(h, ms,
                 [named EXCEPT !.headers =
                     { kv[1] : kv \in w.maps[ms[h[first[1]].metadata].Attributes] }
                         \ dropKeys],
                 ipvCidrs, 1, cidrCol, dropKeys, leftFirst)

\* writer.IsIpV6(IPv6).Write(ctx.super, ".", cmd.CidrKey, cmd.DropKeys) for
\* the writer Run makes for OutputFormat, on the maps and Stats.Output the
\* call before it left: what it wrote, the maps and Stats.Output after it
WriterWrite(h, ms, sup, maps, Output, OutputFormat, splitIpVersions, IPv6, dropKeys, leftFirst) ==
    LET w == [maps |-> maps, Output |-> Output,
              file |-> [stem |-> "", ext |-> ""], headers |-> {},
              records |-> <<>>, panic |-> NoPanic]
    IN  IF OutputFormat = "json"
        THEN JsonWriterWrite(h, ms, sup, w, splitIpVersions, IPv6, CidrKey,
                             dropKeys, leftFirst)
        ELSE CsvWriterWrite(h, ms, sup, w, OutputFormat = "tsv",
                            splitIpVersions, IPv6, CidrKey, dropKeys, leftFirst)

\* the part of Run after the inserts: one Write call, or one per address
\* family with SplitIpVersions, the second made when the first returns
RunWrite(h, ms, sup, OutputFormat, SplitIpVersions, dropKeys, leftFirst) ==
    LET both(v4) ==
            IF v4.panic # NoPanic THEN [maps |-> v4.maps, Output |-> v4.Output,
                                        files |-> <<v4>>, panic |-> v4.panic]
            ELSE LET second(v6) == [maps |-> v6.maps, Output |-> v6.Output,
                                    files |-> <<v4, v6>>, panic |-> v6.panic]
                 IN  second(WriterWrite(h, ms, sup, v4.maps, v4.Output,
                                        OutputFormat, TRUE, TRUE, dropKeys,
                                        leftFirst))
        one(w) == [maps |-> w.maps, Output |-> w.Output, files |-> <<w>>,
                   panic |-> w.panic]
    IN  IF SplitIpVersions
        THEN both(WriterWrite(h, ms, sup, AttributeMaps(ms), 0, OutputFormat,
                              TRUE, FALSE, dropKeys, leftFirst))
        ELSE one(WriterWrite(h, ms, sup, AttributeMaps(ms), 0, OutputFormat,
                             FALSE, FALSE, dropKeys, leftFirst))

\* the callback of parseAndInsertCidrs on one record of the input files
RunInsert(ipnet, priority) ==
    /\ ret = NoReturn
    /\ Len(history) < MaxRunInserts
    /\ InsertCall(ipnet, RunRecord(ipnet, priority, Len(history) + 1))

RunInsertV4 ==
    \E ipnet \in V4Cidrs, priority \in UserPriorities : RunInsert(ipnet, priority)

RunInsertV6 ==
    \E ipnet \in V6Cidrs, priority \in UserPriorities : RunInsert(ipnet, priority)

\* the orders updateAttributes may read a nil Metadata in: both where a
\* stored leaf has none, one where the order shows in nothing
EvaluationOrders ==
    IF \E forV6 \in BOOLEAN :
          \E i \in 1..Len(AllCIDRS(nodes, super, forV6)) :
              nodes[AllCIDRS(nodes, super, forV6)[i]].metadata = NULL
    THEN BOOLEAN
    ELSE {TRUE}

\* the rest of Run when the input files are read: the writer rewrites the
\* Attributes of the stored entries and counts them, Run returns
WriteResults ==
    /\ panicked = NoPanic
    /\ ret = NoReturn
    /\ \E OutputFormat \in OutputFormats, SplitIpVersions \in BOOLEAN,
          dropKeys \in DropKeysOptions, leftFirst \in EvaluationOrders :
           LET written(r) ==
                   /\ metas' = [m \in 1..Len(metas) |->
                                  [metas[m] EXCEPT
                                      !.Attributes = r.maps[metas[m].Attributes]]]
                   /\ ret' = [op |-> "Run",
                              args |-> <<OutputFormat, SplitIpVersions, dropKeys>>,
                              value |-> [Output |-> r.Output,
                                         files |-> [i \in 1..Len(r.files) |->
                                                     [file |-> r.files[i].file,
                                                      headers |-> r.files[i].headers,
                                                      records |-> r.files[i].records]]]]
                   /\ panicked' = r.panic
           IN  written(RunWrite(nodes, metas, super, OutputFormat,
                                SplitIpVersions, dropKeys, leftFirst))
    /\ UNCHANGED <<nodes, super, result, call, history, logged>>

RunNext == RunInsertV4 \/ RunInsertV6 \/ WriteResults

RunSpec == Init /\ [][RunNext]_vars

\* Run has returned
RunReturned == panicked = NoPanic /\ ret.op = "Run"

\* the counters Run hands to printStats
RunStats == [InsertStats EXCEPT !.Output = ret.value.Output]

\* C38: after a resolve run the counter printed as 'CIDRs With Conflicts' is
\* the number of inserted records whose report has a conflict kind other
\* than No Conflict, and the one printed as 'CIDRs Inserted' is the number
\* of records inserted.
C38_CountersMatchReports ==
    RunReturned =>
        /\ RunStats.Conflicted
               = Cardinality({ i \in 1..Len(logged) :
                                 logged[i].ir.ConflictType # "NoConflict" })
        /\ RunStats.Input = Len(history)
====
